---- MODULE Spec2Model ----
(***************************************************************************)
(* Model of the tc traffic monitor (ZingerLittleBee/tc).                   *)
(*                                                                         *)
(* Part 1: the XDP packet classifier of tc-ebpf/src/main.rs and the three  *)
(* bounded BPF hash maps it updates (FLOW_STATS, IP_PROTOCOL_STATS,        *)
(* PORT_STATS), read through the watch-list map TARGET_IP.                 *)
(*                                                                         *)
(* A run of xdp_firewall is a sequence of steps, one TARGET_IP test or one  *)
(* BPF map operation (get or insert) each; runs on different CPUs (lanes)  *)
(* interleave, and user space reads the maps between any two steps.        *)
(*                                                                         *)
(*   Spec      - packets of watched hosts; a second packet may arrive      *)
(*               while a run is in progress;                               *)
(*   SpecParse - Spec on the frames the classifier passes uncounted:       *)
(*               truncated, not IPv4, not TCP/UDP, no watched address;     *)
(*   SpecLanes - the lanes on packets of one flow key, from maps with      *)
(*               history;                                                  *)
(*   SpecPorts - SpecLanes on a TCP segment and a UDP datagram of one      *)
(*               port.                                                     *)
(*                                                                         *)
(* Part 2: the user-space program of tc/src: the listener configuration    *)
(* manager (listener_config.rs), the time-series store over an ordered     *)
(* key-value database (storage.rs, serializable_types.rs) and the rate     *)
(* computation of the analyzer (analytics.rs).                             *)
(*   SpecListen - add_listen_ip / remove_listen_ip interleaved with        *)
(*                classifier runs;                                         *)
(*   SpecStore  - store_traffic_snapshot and cleanup_old_data on the       *)
(*                database, with a wall clock;                             *)
(*   SpecQuery  - one range query on a database that snapshots built;      *)
(*   SpecLatest - get_latest_snapshot, scan by scan, beside the            *)
(*                store_traffic_snapshot calls of the main loop;           *)
(*   SpecRate   - analyze_ebpf_data called on successive map contents;     *)
(*   SpecConfig - the IP and port calls of the configuration manager and   *)
(*                the two validators;                                      *)
(*   SpecScan   - one range scan on a database holding damaged values;     *)
(*   SpecTop    - calculate_top_ips and calculate_top_ports on the maps of *)
(*                a busy host, one entry of the hash map's iteration per   *)
(*                step.                                                    *)
(*                                                                         *)
(* Part 3: the program as it runs (main.rs, web_api.rs).                   *)
(*   SpecDashboard - update_dashboard_data against concurrent              *)
(*                   get_dashboard requests, one lock or copy step each;   *)
(*   SpecMain      - the select loop of main: sleep or Ctrl-C, the tick    *)
(*                   body and the final pass, each call reading the maps   *)
(*                   entry by entry while packets arrive;                  *)
(*   SpecMainFair  - SpecMain with the main task kept running;             *)
(*   SpecCollect   - collect_and_store_data, one map entry per step,       *)
(*                   while packets are classified;                         *)
(*   SpecCallers   - concurrent add_listen_ip, remove_listen_ip and        *)
(*                   get_config requests, one lock, test or copy step each. *)
(* All specifications share the state.                                     *)
(***************************************************************************)
EXTENDS Integers, Naturals, FiniteSets, Sequences, TLC

VARIABLES
    TARGET_IP,          \* watch-list map: the set of its keys (u32 addresses)
    FLOW_STATS,         \* FlowKey -> EnhancedTrafficStats, modelled keys only
    IP_PROTOCOL_STATS,  \* ip -> ProtocolStats, modelled keys only
    PORT_STATS,         \* port -> PortStats, modelled keys only
    flow_other,         \* entries of FLOW_STATS whose keys are outside FlowKeys
    proto_other,        \* entries of IP_PROTOCOL_STATS whose keys are outside IPs
    port_other,         \* entries of PORT_STATS whose keys are outside Ports
    ktime,              \* bpf_ktime_get_ns(): the monotonic clock
    npkts,              \* packets handed to the classifier so far
    last,               \* the last completed run: its packet, verdict, timestamp
    lanes,              \* per processing lane: position in the classifier and locals
    done,               \* FlowKey -> completed FLOW_STATS.insert calls for the key
    listen_ips,         \* ListenerConfig.listen_ips: HashSet<u32>
    db,                 \* TrafficStorage.db: key (sequence of characters) -> value
    now,                \* the second of the last reading of the wall clock (Utc::now())
    nstores,            \* calls of store_traffic_snapshot so far
    previous_totals,    \* TrafficAnalyzer.previous_totals: name -> u64
    last_snapshot_time, \* TrafficAnalyzer.last_snapshot_time, in milliseconds
    out,                \* the last user-space call: its name, arguments, result
    listen_ports,       \* ListenerConfig.listen_ports: HashSet<u16>
    latest_dashboard_data, \* AppState.latest_dashboard_data: None or a DashboardData
    dashboard_lock,     \* its RwLock: whether a writer holds it, the readers holding it
    updater,            \* update_dashboard_data: its position and its argument
    readers,            \* per web request: position in get_dashboard and its clone
    log,                \* the completed update_dashboard_data and get_dashboard calls
    pc,                 \* main(): position in the loop
    prev_tick,          \* totals and clock reading of the last periodic analysis
    collector,          \* collect_and_store_data: its position, the maps it has read
    listen_ips_lock,    \* the RwLock of listen_ips: its writer, the readers holding it
    callers             \* per API request: position in the configuration call, locals

lockVars == <<collector, listen_ips_lock, callers>>

(* The variables of main(), the web API and the configuration calls, apart *)
(* from the collector                                                      *)
taskVars == <<listen_ports, latest_dashboard_data, dashboard_lock, updater, readers, log,
              pc, prev_tick, listen_ips_lock, callers>>

mainVars == <<latest_dashboard_data, dashboard_lock, updater, readers, log, pc, prev_tick,
              lockVars>>

appVars == <<listen_ports, mainVars>>

userVars == <<listen_ips, db, now, nstores, previous_totals, last_snapshot_time, out,
              appVars>>

vars == <<TARGET_IP, FLOW_STATS, IP_PROTOCOL_STATS, PORT_STATS, flow_other,
          proto_other, port_other, ktime, npkts, last, lanes, done, userVars>>

----------------------------------------------------------------------------
(* Program constants *)

PROTOCOL_TCP == 6
PROTOCOL_UDP == 17
DIRECTION_INBOUND == 0
DIRECTION_OUTBOUND == 1

XDP_ABORTED == 0
XDP_DROP == 1
XDP_PASS == 2
XDP_TX == 3
XDP_REDIRECT == 4

FLOW_MAX_ENTRIES == 8192
PROTO_MAX_ENTRIES == 1024
PORT_MAX_ENTRIES == 1024

EthHdrLen == 14
Ipv4HdrLen == 20
TcpHdrLen == 20
UdpHdrLen == 8

ETH_P_IP == 2048
ETH_P_ARP == 2054
IPPROTO_ICMP == 1

----------------------------------------------------------------------------
(* Bounds of the model *)

MaxPackets == 2
MaxLanePackets == 3

Lanes == {1, 2}

\* 10.0.0.5 and 10.0.0.1 as u32
IPs == {10 * 16777216 + 5, 10 * 16777216 + 1}
Ports == {443, 51000}
Protocols == {PROTOCOL_TCP, PROTOCOL_UDP}
Directions == {DIRECTION_INBOUND, DIRECTION_OUTBOUND}
\* buffer lengths on both sides of every header boundary: 14, 34, 42 and 54
BufLens == {13, 14, 33, 34, 41, 42, 53, 54}

FlowKeys == [ip : IPs, port : Ports, protocol : Protocols, direction : Directions]

----------------------------------------------------------------------------
(* Packets: the buffer of an XdpContext, by its length and its decoded     *)
(* header fields.  A field whose bytes lie beyond the end of the buffer    *)
(* does not exist and is fixed to 0.                                       *)

IpA == 10 * 16777216 + 5  \* 10.0.0.5 as u32
IpB == 10 * 16777216 + 1  \* 10.0.0.1 as u32

Truncate(p) ==
    [p EXCEPT
        !.ether_type = IF p.len >= EthHdrLen THEN @ ELSE 0,
        !.proto   = IF p.len >= EthHdrLen + Ipv4HdrLen THEN @ ELSE 0,
        !.src     = IF p.len >= EthHdrLen + Ipv4HdrLen THEN @ ELSE 0,
        !.dst     = IF p.len >= EthHdrLen + Ipv4HdrLen THEN @ ELSE 0,
        !.tot_len = IF p.len >= EthHdrLen + Ipv4HdrLen THEN @ ELSE 0,
        !.sport   = IF p.len >= EthHdrLen + Ipv4HdrLen + 4 THEN @ ELSE 0,
        !.dport   = IF p.len >= EthHdrLen + Ipv4HdrLen + 4 THEN @ ELSE 0]

\* 10.0.0.5:443 -> 10.0.0.1:51000, 100 bytes, cut at every buffer length: as
\* IPv4 with every IP protocol, and as a frame of another ether-type
HeaderPackets ==
    { Truncate([len |-> n, ether_type |-> ep[1], proto |-> ep[2], src |-> IpA,
                dst |-> IpB, sport |-> 443, dport |-> 51000, tot_len |-> 100]) :
        <<n, ep>> \in BufLens \X {<<ETH_P_IP, PROTOCOL_TCP>>, <<ETH_P_IP, PROTOCOL_UDP>>,
                                  <<ETH_P_IP, IPPROTO_ICMP>>, <<ETH_P_ARP, PROTOCOL_TCP>>} }

\* complete TCP segments (100 bytes) and UDP datagrams (60 bytes) between the
\* modelled hosts, from port 443
FlowPackets ==
    { [len |-> 54, ether_type |-> ETH_P_IP, proto |-> pr, src |-> s, dst |-> d,
       sport |-> 443, dport |-> dp,
       tot_len |-> IF pr = PROTOCOL_TCP THEN 100 ELSE 60] :
        <<pr, s, d, dp>> \in Protocols \X IPs \X IPs \X Ports }

Packets == HeaderPackets \cup FlowPackets

NullPkt == [len |-> 0, ether_type |-> 0, proto |-> 0, src |-> 0, dst |-> 0,
            sport |-> 0, dport |-> 0, tot_len |-> 0]

----------------------------------------------------------------------------
(* Header Reader: ptr_at.  The buffer starts at ctx.data() = 0 and ends at *)
(* ctx.data_end() = pkt.len.                                               *)

(* Mutation: the bound is checked one byte too leniently *)
ptr_at_OffByOne(pkt, offset, size) == ~(0 + offset + size > pkt.len + 1)

ptr_at(pkt, offset, size) == ~(0 + offset + size > pkt.len)

(* Mutation: every IP protocol other than TCP is parsed as UDP and counted *)
ParseAnyProtocol(pkt) ==
    IF ~ptr_at(pkt, 0, EthHdrLen) THEN "abort"
    ELSE IF pkt.ether_type # ETH_P_IP THEN "pass"
    ELSE IF ~ptr_at(pkt, EthHdrLen, Ipv4HdrLen) THEN "abort"
    ELSE IF pkt.proto = PROTOCOL_TCP
         THEN (IF ptr_at(pkt, EthHdrLen + Ipv4HdrLen, TcpHdrLen) THEN "count" ELSE "abort")
    ELSE (IF ptr_at(pkt, EthHdrLen + Ipv4HdrLen, UdpHdrLen) THEN "count" ELSE "abort")

(* The parsing part of try_xdp_firewall: which headers are read and where  *)
(* the run ends when it makes no map access.                               *)
(*   "abort" - a ptr_at failed (Err, turned into XDP_ABORTED)              *)
(*   "pass"  - not IPv4, or neither TCP nor UDP (Ok(XDP_PASS))             *)
(*   "count" - headers parsed, the run goes on to the watch-list tests     *)
Parse(pkt) ==
    IF ~ptr_at(pkt, 0, EthHdrLen) THEN "abort"
    ELSE IF pkt.ether_type # ETH_P_IP THEN "pass"
    ELSE IF ~ptr_at(pkt, EthHdrLen, Ipv4HdrLen) THEN "abort"
    ELSE IF pkt.proto = PROTOCOL_TCP
         THEN (IF ptr_at(pkt, EthHdrLen + Ipv4HdrLen, TcpHdrLen) THEN "count" ELSE "abort")
    ELSE IF pkt.proto = PROTOCOL_UDP
         THEN (IF ptr_at(pkt, EthHdrLen + Ipv4HdrLen, UdpHdrLen) THEN "count" ELSE "abort")
    ELSE "pass"

(* Mutation: traffic the classifier does not count is dropped *)
xdp_firewall_DropUnsupported(tag) ==
    IF tag = "abort" THEN XDP_ABORTED ELSE IF tag = "pass" THEN XDP_DROP ELSE XDP_PASS

(* xdp_firewall: the verdict of a run whose parsing ended as tag *)
xdp_firewall(tag) == IF tag = "abort" THEN XDP_ABORTED ELSE XDP_PASS

----------------------------------------------------------------------------
(* BPF hash maps.  A map is a function on the modelled keys it holds, plus *)
(* a count of entries under other keys; None is the result of a failed get.*)

None == [absent |-> TRUE]

MapGet(m, key) == IF key \in DOMAIN m THEN m[key] ELSE None

MapLen(m, other) == Cardinality(DOMAIN m) + other

(* Mutation: the map takes one entry more than max_entries *)
MapInsertOneTooMany(m, other, max, key, val) ==
    IF key \in DOMAIN m \/ MapLen(m, other) <= max
    THEN [k \in DOMAIN m \cup {key} |-> IF k = key THEN val ELSE m[k]]
    ELSE m

(* Mutation: a full map rejects every insert, also for a key it holds *)
MapInsertRejectWhenFull(m, other, max, key, val) ==
    IF MapLen(m, other) < max
    THEN [k \in DOMAIN m \cup {key} |-> IF k = key THEN val ELSE m[k]]
    ELSE m

(* HashMap::insert(key, value, 0) on a map of max_entries max: an existing *)
(* key is overwritten; a new key is added unless the map is full, in which *)
(* case the call fails and the map is unchanged.                           *)
MapInsert(m, other, max, key, val) ==
    IF key \in DOMAIN m \/ MapLen(m, other) < max
    THEN [k \in DOMAIN m \cup {key} |-> IF k = key THEN val ELSE m[k]]
    ELSE m

----------------------------------------------------------------------------
(* The value each update function puts back, from what its get returned.   *)

(* Mutation: an existing entry is counted in both directions *)
FlowValueBothDirections(existing, protocol, direction, bytes, timestamp) ==
    IF existing # None
    THEN [existing EXCEPT
            !.inbound_packets  = @ + 1,
            !.inbound_bytes    = @ + bytes,
            !.outbound_packets = @ + 1,
            !.outbound_bytes   = @ + bytes,
            !.last_seen        = timestamp,
            !.connection_count = @ + 1]
    ELSE [inbound_packets  |-> IF direction = DIRECTION_INBOUND THEN 1 ELSE 0,
          inbound_bytes    |-> IF direction = DIRECTION_INBOUND THEN bytes ELSE 0,
          outbound_packets |-> IF direction # DIRECTION_INBOUND THEN 1 ELSE 0,
          outbound_bytes   |-> IF direction # DIRECTION_INBOUND THEN bytes ELSE 0,
          protocol         |-> protocol,
          last_seen        |-> timestamp,
          connection_count |-> 1]

(* Mutation: a new entry starts from EnhancedTrafficStats::new, all zero,  *)
(* and only its direction's counters are set                               *)
FlowValueNewFromZero(existing, protocol, direction, bytes, timestamp) ==
    IF existing # None
    THEN [existing EXCEPT
            !.inbound_packets  = IF direction = DIRECTION_INBOUND THEN @ + 1 ELSE @,
            !.inbound_bytes    = IF direction = DIRECTION_INBOUND THEN @ + bytes ELSE @,
            !.outbound_packets = IF direction = DIRECTION_INBOUND THEN @ ELSE @ + 1,
            !.outbound_bytes   = IF direction = DIRECTION_INBOUND THEN @ ELSE @ + bytes,
            !.last_seen        = timestamp,
            !.connection_count = @ + 1]
    ELSE [inbound_packets  |-> IF direction = DIRECTION_INBOUND THEN 1 ELSE 0,
          inbound_bytes    |-> IF direction = DIRECTION_INBOUND THEN bytes ELSE 0,
          outbound_packets |-> IF direction # DIRECTION_INBOUND THEN 1 ELSE 0,
          outbound_bytes   |-> IF direction # DIRECTION_INBOUND THEN bytes ELSE 0,
          protocol         |-> protocol,
          last_seen        |-> 0,
          connection_count |-> 0]

(* Mutation: connection_count counts the creation of the entry only *)
FlowValueCountsSetupOnly(existing, protocol, direction, bytes, timestamp) ==
    IF existing # None
    THEN [existing EXCEPT
            !.inbound_packets  = IF direction = DIRECTION_INBOUND THEN @ + 1 ELSE @,
            !.inbound_bytes    = IF direction = DIRECTION_INBOUND THEN @ + bytes ELSE @,
            !.outbound_packets = IF direction = DIRECTION_INBOUND THEN @ ELSE @ + 1,
            !.outbound_bytes   = IF direction = DIRECTION_INBOUND THEN @ ELSE @ + bytes,
            !.last_seen        = timestamp]
    ELSE [inbound_packets  |-> IF direction = DIRECTION_INBOUND THEN 1 ELSE 0,
          inbound_bytes    |-> IF direction = DIRECTION_INBOUND THEN bytes ELSE 0,
          outbound_packets |-> IF direction # DIRECTION_INBOUND THEN 1 ELSE 0,
          outbound_bytes   |-> IF direction # DIRECTION_INBOUND THEN bytes ELSE 0,
          protocol         |-> protocol,
          last_seen        |-> timestamp,
          connection_count |-> 1]

FlowValue(existing, protocol, direction, bytes, timestamp) ==
    IF existing # None
    THEN [existing EXCEPT
            !.inbound_packets  = IF direction = DIRECTION_INBOUND THEN @ + 1 ELSE @,
            !.inbound_bytes    = IF direction = DIRECTION_INBOUND THEN @ + bytes ELSE @,
            !.outbound_packets = IF direction = DIRECTION_INBOUND THEN @ ELSE @ + 1,
            !.outbound_bytes   = IF direction = DIRECTION_INBOUND THEN @ ELSE @ + bytes,
            !.last_seen        = timestamp,
            !.connection_count = @ + 1]
    ELSE [inbound_packets  |-> IF direction = DIRECTION_INBOUND THEN 1 ELSE 0,
          inbound_bytes    |-> IF direction = DIRECTION_INBOUND THEN bytes ELSE 0,
          outbound_packets |-> IF direction # DIRECTION_INBOUND THEN 1 ELSE 0,
          outbound_bytes   |-> IF direction # DIRECTION_INBOUND THEN bytes ELSE 0,
          protocol         |-> protocol,
          last_seen        |-> timestamp,
          connection_count |-> 1]

ProtocolValueFlowsPerEntry(existing, protocol, bytes, packets) ==
    IF existing # None
    THEN IF protocol = PROTOCOL_TCP
         THEN [existing EXCEPT !.tcp_bytes = @ + bytes, !.tcp_packets = @ + packets]
         ELSE [existing EXCEPT !.udp_bytes = @ + bytes, !.udp_packets = @ + packets]
    ELSE IF protocol = PROTOCOL_TCP
         THEN [tcp_flows |-> 1, udp_flows |-> 0, tcp_bytes |-> bytes, udp_bytes |-> 0,
               tcp_packets |-> packets, udp_packets |-> 0]
         ELSE [tcp_flows |-> 0, udp_flows |-> 1, tcp_bytes |-> 0, udp_bytes |-> bytes,
               tcp_packets |-> 0, udp_packets |-> packets]

ProtocolValue(existing, protocol, bytes, packets) ==
    IF existing # None
    THEN IF protocol = PROTOCOL_TCP
         THEN [existing EXCEPT !.tcp_flows = @ + 1, !.tcp_bytes = @ + bytes,
                               !.tcp_packets = @ + packets]
         ELSE [existing EXCEPT !.udp_flows = @ + 1, !.udp_bytes = @ + bytes,
                               !.udp_packets = @ + packets]
    ELSE IF protocol = PROTOCOL_TCP
         THEN [tcp_flows |-> 1, udp_flows |-> 0, tcp_bytes |-> bytes, udp_bytes |-> 0,
               tcp_packets |-> packets, udp_packets |-> 0]
         ELSE [tcp_flows |-> 0, udp_flows |-> 1, tcp_bytes |-> 0, udp_bytes |-> bytes,
               tcp_packets |-> 0, udp_packets |-> packets]

(* Mutation: a later packet on a port is not counted as a connection *)
PortValueConnectionsOnce(existing, port, protocol, bytes, timestamp) ==
    IF existing # None
    THEN [existing EXCEPT !.total_bytes = @ + bytes, !.total_packets = @ + 1,
                          !.last_active = timestamp]
    ELSE [port |-> port, protocol |-> protocol, total_bytes |-> bytes,
          total_packets |-> 1, active_connections |-> 1, last_active |-> timestamp]

(* Mutation: an existing port entry takes the protocol of the packet *)
PortValueLatestProtocol(existing, port, protocol, bytes, timestamp) ==
    IF existing # None
    THEN [existing EXCEPT !.total_bytes = @ + bytes, !.total_packets = @ + 1,
                          !.active_connections = @ + 1, !.last_active = timestamp,
                          !.protocol = protocol]
    ELSE [port |-> port, protocol |-> protocol, total_bytes |-> bytes,
          total_packets |-> 1, active_connections |-> 1, last_active |-> timestamp]

PortValue(existing, port, protocol, bytes, timestamp) ==
    IF existing # None
    THEN [existing EXCEPT !.total_bytes = @ + bytes, !.total_packets = @ + 1,
                          !.active_connections = @ + 1, !.last_active = timestamp]
    ELSE [port |-> port, protocol |-> protocol, total_bytes |-> bytes,
          total_packets |-> 1, active_connections |-> 1, last_active |-> timestamp]

FlowKeyOf(ip, port, protocol, direction) ==
    [ip |-> ip, port |-> port, protocol |-> protocol, direction |-> direction]

----------------------------------------------------------------------------
Maps == [flow |-> FLOW_STATS, proto |-> IP_PROTOCOL_STATS, port |-> PORT_STATS]


----------------------------------------------------------------------------
(* Initial states.  The modelled keys are absent from the three maps; the  *)
(* maps may already hold entries under other keys (other watched hosts and *)
(* other ports), up to their max_entries; at most one of the maps does.    *)
(* The watch-list is what main()                                           *)
(* loaded from the TARGET_IP environment variable (at least one address).  *)

FillLevels(max) == {0, max - 1, max}

Quiescent == \A l \in Lanes : lanes[l].pc = "idle"

NoMaps == [flow |-> << >>, proto |-> << >>, port |-> << >>]

(* A lane (one CPU running the classifier).  alone and before are history  *)
(* of the run, kept for the properties: whether no other run was between   *)
(* its first and its last map access at any time during it, and, as long   *)
(* as that is so, the three maps when the run started.                     *)
IdleLane == [pc |-> "idle", pkt |-> NullPkt, ts |-> 0,
             dir |-> DIRECTION_INBOUND, got |-> None, before |-> NoMaps, alone |-> TRUE]

(* The run that returned last; n numbers the returned runs and seq tells   *)
(* whether each of them ran alone                                          *)
NoRun == [pkt |-> NullPkt, ret |-> -1, ts |-> 0, n |-> 0, alone |-> TRUE,
          before |-> NoMaps, seq |-> TRUE]

(* The user-space state after main() has built it: the listener            *)
(* configuration holds the target addresses (from_target_ips), the         *)
(* database is empty (create_if_missing), the analyzer has no previous     *)
(* totals and took its first clock reading (TrafficAnalyzer::new).         *)
StartTime == 9

(* DateTime<Utc> readings of the analyzer are kept in milliseconds *)
MillisPerSec == 1000

NoCall == [op |-> "none"]

(* Web requests that may be in get_dashboard at the same time *)
Readers == {"r1", "r2"}

IdleUpdater == [pc |-> "idle"]

IdleReader == [pc |-> "idle"]

(* API requests that may be in a configuration call at the same time *)
Callers == {"c1", "c2", "c3"}

IdleCaller == [pc |-> "idle", n |-> 0]

IdleCollector == [pc |-> "idle"]

(* ListenerConfig::new: no port is listened on; AppState::new: no data yet *)
(* and the lock free; main() is about to enter its loop                    *)
AppInit ==
    /\ listen_ports = {}
    /\ latest_dashboard_data = None
    /\ dashboard_lock = [writer |-> FALSE, readers |-> {}]
    /\ updater = IdleUpdater
    /\ readers = [r \in Readers |-> IdleReader]
    /\ log = << >>
    /\ pc = "select"
    /\ prev_tick = None
    /\ collector = IdleCollector
    /\ listen_ips_lock = [writer |-> FALSE, readers |-> {}]
    /\ callers = [c \in Callers |-> IdleCaller]

(* The state after construction, the analyzer made (TrafficAnalyzer::new,   *)
(* analytics.rs:86) at the clock reading made, in milliseconds             *)
InitAt(made) ==
    /\ TARGET_IP \in SUBSET IPs \ {{}}
    /\ FLOW_STATS = << >>
    /\ IP_PROTOCOL_STATS = << >>
    /\ PORT_STATS = << >>
    /\ flow_other \in FillLevels(FLOW_MAX_ENTRIES)
    /\ proto_other \in FillLevels(PROTO_MAX_ENTRIES)
    /\ port_other \in FillLevels(PORT_MAX_ENTRIES)
    /\ \/ proto_other = 0 /\ port_other = 0
       \/ flow_other = 0 /\ port_other = 0
       \/ flow_other = 0 /\ proto_other = 0
    /\ ktime = 1
    /\ npkts = 0
    /\ last = NoRun
    /\ lanes = [l \in Lanes |-> IdleLane]
    /\ done = << >>
    /\ listen_ips = TARGET_IP
    /\ db = << >>
    /\ now = StartTime
    /\ nstores = 0
    /\ previous_totals = << >>
    /\ last_snapshot_time = made
    /\ out = NoCall
    /\ AppInit

Init == InitAt(StartTime * MillisPerSec)

----------------------------------------------------------------------------
(* done counts, per flow key, the FLOW_STATS.insert calls made so far;     *)
(* a key nothing was inserted under is not in its domain.                  *)
Count(f, k) == IF k \in DOMAIN f THEN f[k] ELSE 0

Bump(f, k) == [x \in DOMAIN f \cup {k} |-> IF x = k THEN Count(f, k) + 1 ELSE f[x]]

----------------------------------------------------------------------------
(* SpecLanes: processing lanes (one per CPU) run the classifier at the     *)
(* same time.  A lane parses its packet and reads the clock when it        *)
(* starts; after that every step is one access to a shared map: a          *)
(* TARGET_IP.get, or the get or the insert of one update function.         *)

\* TCP segments from one modelled host to the other (443 -> 51000), a truncated frame
\* and a frame that is not IPv4
LanePackets ==
    { p \in FlowPackets : p.proto = PROTOCOL_TCP /\ p.dport = 51000 /\ p.src # p.dst }
    \cup { p \in HeaderPackets : p.len = 13 \/ (p.len = 54 /\ p.ether_type = ETH_P_ARP) }

LaneIp(ln) == IF ln.dir = DIRECTION_INBOUND THEN ln.pkt.src ELSE ln.pkt.dst
LanePort(ln) == IF ln.dir = DIRECTION_INBOUND THEN ln.pkt.sport ELSE ln.pkt.dport
LaneKey(ln) == FlowKeyOf(LaneIp(ln), LanePort(ln), ln.pkt.proto, ln.dir)

(* The run of lane l returns Ok(XDP_PASS) *)
Return(l) ==
    /\ lanes' = [lanes EXCEPT ![l] = IdleLane]
    /\ last' = [pkt |-> lanes[l].pkt, ret |-> XDP_PASS, ts |-> lanes[l].ts,
                n |-> last.n + 1, alone |-> lanes[l].alone, before |-> lanes[l].before,
                seq |-> last.seq /\ lanes[l].alone]

(* lines 71-109: header parsing and bpf_ktime_get_ns.  A run that ends in  *)
(* the parsing touches no map and is one step.                             *)
LaneStart(l, pkt) ==
    /\ lanes[l].pc = "idle"
    /\ npkts' = npkts + 1
    /\ IF Parse(pkt) = "count"
       THEN /\ lanes' = [m \in Lanes |->
                            IF m = l
                            THEN [pc |-> "src_test", pkt |-> pkt, ts |-> ktime,
                                  dir |-> DIRECTION_INBOUND, got |-> None,
                                  before |-> IF Quiescent THEN Maps ELSE NoMaps,
                                  alone |-> Quiescent]
                            ELSE IF lanes[m].pc = "idle" THEN lanes[m]
                            ELSE [lanes[m] EXCEPT !.alone = FALSE, !.before = NoMaps]]
            /\ ktime' = ktime + 1
            /\ UNCHANGED last
       ELSE /\ last' = [pkt |-> pkt, ret |-> xdp_firewall(Parse(pkt)), ts |-> 0,
                        n |-> last.n + 1, alone |-> TRUE, before |-> Maps,
                        seq |-> last.seq]
            /\ UNCHANGED <<lanes, ktime>>
    /\ UNCHANGED <<userVars, TARGET_IP, FLOW_STATS, IP_PROTOCOL_STATS, PORT_STATS, flow_other,
                   proto_other, port_other, done>>

(* line 112: TARGET_IP.get(&source_addr) *)
LaneSrcTest(l) ==
    /\ lanes[l].pc = "src_test"
    /\ lanes' = [lanes EXCEPT ![l].dir = DIRECTION_INBOUND,
                              ![l].pc = IF lanes[l].pkt.src \in TARGET_IP
                                        THEN "flow_get" ELSE "dst_test"]
    /\ UNCHANGED <<userVars, TARGET_IP, FLOW_STATS, IP_PROTOCOL_STATS, PORT_STATS, flow_other,
                   proto_other, port_other, ktime, npkts, last, done>>

(* line 140: TARGET_IP.get(&dest_addr) *)
LaneDstTest(l) ==
    /\ lanes[l].pc = "dst_test"
    /\ IF lanes[l].pkt.dst \in TARGET_IP
       THEN /\ lanes' = [lanes EXCEPT ![l].dir = DIRECTION_OUTBOUND, ![l].pc = "flow_get"]
            /\ UNCHANGED last
       ELSE Return(l)
    /\ UNCHANGED <<userVars, TARGET_IP, FLOW_STATS, IP_PROTOCOL_STATS, PORT_STATS, flow_other,
                   proto_other, port_other, ktime, npkts, done>>

(* line 180: FLOW_STATS.get(&key) and the copy of what it points to *)
LaneFlowGet(l) ==
    /\ lanes[l].pc = "flow_get"
    /\ lanes' = [lanes EXCEPT ![l].got = MapGet(FLOW_STATS, LaneKey(lanes[l])),
                              ![l].pc = "flow_put"]
    /\ UNCHANGED <<userVars, TARGET_IP, FLOW_STATS, IP_PROTOCOL_STATS, PORT_STATS, flow_other,
                   proto_other, port_other, ktime, npkts, last, done>>

(* Mutation: a rejected flow insert ends the run *)
LaneFlowPutStopsOnReject(l) ==
    /\ lanes[l].pc = "flow_put"
    /\ LET ln == lanes[l]
           stats == FlowValue(ln.got, ln.pkt.proto, ln.dir, ln.pkt.tot_len, ln.ts)
       IN  /\ FLOW_STATS' = MapInsert(FLOW_STATS, flow_other, FLOW_MAX_ENTRIES,
                                      LaneKey(ln), stats)
           /\ done' = Bump(done, LaneKey(ln))
    /\ IF LaneKey(lanes[l]) \in DOMAIN FLOW_STATS'
       THEN /\ lanes' = [lanes EXCEPT ![l].got = None, ![l].pc = "proto_get"]
            /\ UNCHANGED last
       ELSE Return(l)
    /\ UNCHANGED <<userVars, TARGET_IP, IP_PROTOCOL_STATS, PORT_STATS, flow_other,
                   proto_other, port_other, ktime, npkts>>

(* lines 182-196 and 199-210: the new value and FLOW_STATS.insert *)
LaneFlowPut(l) ==
    /\ lanes[l].pc = "flow_put"
    /\ LET ln == lanes[l]
           stats == FlowValue(ln.got, ln.pkt.proto, ln.dir, ln.pkt.tot_len, ln.ts)
       IN  /\ FLOW_STATS' = MapInsert(FLOW_STATS, flow_other, FLOW_MAX_ENTRIES,
                                      LaneKey(ln), stats)
           /\ done' = Bump(done, LaneKey(ln))
    /\ lanes' = [lanes EXCEPT ![l].got = None, ![l].pc = "proto_get"]
    /\ UNCHANGED <<userVars, TARGET_IP, IP_PROTOCOL_STATS, PORT_STATS, flow_other,
                   proto_other, port_other, ktime, npkts, last>>

(* line 216: IP_PROTOCOL_STATS.get(&ip) *)
LaneProtoGet(l) ==
    /\ lanes[l].pc = "proto_get"
    /\ lanes' = [lanes EXCEPT ![l].got = MapGet(IP_PROTOCOL_STATS, LaneIp(lanes[l])),
                              ![l].pc = "proto_put"]
    /\ UNCHANGED <<userVars, TARGET_IP, FLOW_STATS, IP_PROTOCOL_STATS, PORT_STATS, flow_other,
                   proto_other, port_other, ktime, npkts, last, done>>

(* Mutation: the port map is updated for the source side only *)
LaneProtoPutPortInboundOnly(l) ==
    /\ lanes[l].pc = "proto_put"
    /\ LET ln == lanes[l]
           stats == ProtocolValue(ln.got, ln.pkt.proto, ln.pkt.tot_len, 1)
       IN  IP_PROTOCOL_STATS' = MapInsert(IP_PROTOCOL_STATS, proto_other,
                                          PROTO_MAX_ENTRIES, LaneIp(ln), stats)
    /\ IF lanes[l].dir = DIRECTION_INBOUND
       THEN /\ lanes' = [lanes EXCEPT ![l].got = None, ![l].pc = "port_get"]
            /\ UNCHANGED last
       ELSE Return(l)
    /\ UNCHANGED <<userVars, TARGET_IP, FLOW_STATS, PORT_STATS, flow_other,
                   proto_other, port_other, ktime, npkts, done>>

(* lines 217-233 and 235-255: the new value and IP_PROTOCOL_STATS.insert *)
LaneProtoPut(l) ==
    /\ lanes[l].pc = "proto_put"
    /\ LET ln == lanes[l]
           stats == ProtocolValue(ln.got, ln.pkt.proto, ln.pkt.tot_len, 1)
       IN  IP_PROTOCOL_STATS' = MapInsert(IP_PROTOCOL_STATS, proto_other,
                                          PROTO_MAX_ENTRIES, LaneIp(ln), stats)
    /\ lanes' = [lanes EXCEPT ![l].got = None, ![l].pc = "port_get"]
    /\ UNCHANGED <<userVars, TARGET_IP, FLOW_STATS, PORT_STATS, flow_other,
                   proto_other, port_other, ktime, npkts, last, done>>

(* line 261: PORT_STATS.get(&port) *)
LanePortGet(l) ==
    /\ lanes[l].pc = "port_get"
    /\ lanes' = [lanes EXCEPT ![l].got = MapGet(PORT_STATS, LanePort(lanes[l])),
                              ![l].pc = "port_put"]
    /\ UNCHANGED <<userVars, TARGET_IP, FLOW_STATS, IP_PROTOCOL_STATS, PORT_STATS, flow_other,
                   proto_other, port_other, ktime, npkts, last, done>>

(* Mutation: the destination is tested only when the source did not match *)
LanePortPutFirstMatch(l) ==
    /\ lanes[l].pc = "port_put"
    /\ LET ln == lanes[l]
           stats == PortValue(ln.got, LanePort(ln), ln.pkt.proto, ln.pkt.tot_len, ln.ts)
       IN  PORT_STATS' = MapInsert(PORT_STATS, port_other, PORT_MAX_ENTRIES,
                                   LanePort(ln), stats)
    /\ Return(l)
    /\ UNCHANGED <<userVars, TARGET_IP, FLOW_STATS, IP_PROTOCOL_STATS, flow_other,
                   proto_other, port_other, ktime, npkts, done>>

(* lines 262-269 and 271-281: the new value and PORT_STATS.insert; the     *)
(* source side goes on to the destination test, the destination side       *)
(* returns                                                                 *)
LanePortPut(l) ==
    /\ lanes[l].pc = "port_put"
    /\ LET ln == lanes[l]
           stats == PortValue(ln.got, LanePort(ln), ln.pkt.proto, ln.pkt.tot_len, ln.ts)
       IN  PORT_STATS' = MapInsert(PORT_STATS, port_other, PORT_MAX_ENTRIES,
                                   LanePort(ln), stats)
    /\ IF lanes[l].dir = DIRECTION_INBOUND
       THEN /\ lanes' = [lanes EXCEPT ![l].got = None, ![l].pc = "dst_test"]
            /\ UNCHANGED last
       ELSE Return(l)
    /\ UNCHANGED <<userVars, TARGET_IP, FLOW_STATS, IP_PROTOCOL_STATS, flow_other,
                   proto_other, port_other, ktime, npkts, done>>

NextLanes ==
    \E l \in Lanes :
        \/ \E pkt \in LanePackets : npkts < MaxLanePackets /\ LaneStart(l, pkt)
        \/ LaneSrcTest(l)
        \/ LaneFlowGet(l)
        \/ LaneFlowPut(l)
        \/ LaneProtoGet(l)
        \/ LaneProtoPut(l)
        \/ LanePortGet(l)
        \/ LanePortPut(l)
        \/ LaneDstTest(l)

(* The lanes start with 10.0.0.5 watched and the protocol and port maps    *)
(* holding no other entries.                                               *)
InitLanes ==
    /\ Init
    /\ TARGET_IP = {IpA}
    /\ flow_other \in {0, FLOW_MAX_ENTRIES}
    /\ proto_other = 0
    /\ port_other = 0

SpecLanes == InitLanes /\ [][NextLanes]_vars

----------------------------------------------------------------------------
(* Spec: the classifier on complete packets of every shape, on maps of     *)
(* every fill.  A packet that arrives while no run is in progress is any   *)
(* of SpecPackets; one that arrives during a run is of OverlapPackets.     *)
(* The CPUs are interchangeable: a packet goes to the first idle lane.     *)

\* from 10.0.0.5, port 443: TCP segments to either host and either port, and a UDP
\* datagram to 10.0.0.1:51000
SpecPackets ==
    { p \in FlowPackets :
        /\ p.src = IpA
        /\ p.proto = PROTOCOL_TCP \/ (p.dst = IpB /\ p.dport = 51000) }

\* TCP 10.0.0.5:443 -> 10.0.0.1:51000
OverlapPackets ==
    { p \in FlowPackets :
        p.src = IpA /\ p.dst = IpB /\ p.dport = 51000 /\ p.proto = PROTOCOL_TCP }

Arrivals == IF Quiescent THEN SpecPackets ELSE OverlapPackets

FirstIdle(l) == \A m \in Lanes : m < l => lanes[m].pc # "idle"

(* One map access of the run of lane l *)
LaneStep(l) ==
    \/ LaneSrcTest(l)
    \/ LaneFlowGet(l)
    \/ LaneFlowPut(l)
    \/ LaneProtoGet(l)
    \/ LaneProtoPut(l)
    \/ LanePortGet(l)
    \/ LanePortPut(l)
    \/ LaneDstTest(l)

Next ==
    \E l \in Lanes :
        \/ \E pkt \in Arrivals : npkts < MaxPackets /\ FirstIdle(l) /\ LaneStart(l, pkt)
        \/ LaneStep(l)

Spec == Init /\ [][Next]_vars

----------------------------------------------------------------------------
(* SpecParse: the classifier on buffers cut at every header boundary and   *)
(* on frames it does not count; a packet that arrives during a run is of   *)
(* LanePackets.                                                            *)

\* a TCP segment between two hosts that may both be unwatched
UnwatchedPackets ==
    { p \in FlowPackets :
        p.src = IpB /\ p.dst = IpB /\ p.dport = 51000 /\ p.proto = PROTOCOL_TCP }

ParseArrivals ==
    IF Quiescent THEN HeaderPackets \cup UnwatchedPackets ELSE LanePackets

NextParse ==
    \E l \in Lanes :
        \/ \E pkt \in ParseArrivals :
              npkts < MaxPackets /\ FirstIdle(l) /\ LaneStart(l, pkt)
        \/ LaneStep(l)

(* The flow and port maps hold no other entries *)
InitParse ==
    /\ Init
    /\ flow_other = 0
    /\ port_other = 0
    /\ proto_other \in {0, PROTO_MAX_ENTRIES}

SpecParse == InitParse /\ [][NextParse]_vars


----------------------------------------------------------------------------
(* Vocabulary of the properties.  These read the packet and the maps       *)
(* directly; none is defined through the classifier's operators.           *)

(* The step is the last one of a run of the classifier, on packet         *)
(* last'.pkt: the run returns                                             *)
Ran == last'.n = last.n + 1

(* ... and no other run was in progress at any time during it *)
RanAlone == Ran /\ last'.alone

(* The three maps when that run started *)
Flow0 == last'.before.flow
Proto0 == last'.before.proto
Port0 == last'.before.port

(* Lane l takes the step, and the packet of its run *)
Steps(l) == lanes'[l].pc # lanes[l].pc
Carried(l) == IF lanes[l].pc = "idle" THEN lanes'[l].pkt ELSE lanes[l].pkt

(* An IPv4 TCP or UDP packet whose three headers lie within the buffer *)
Complete(pkt) ==
    /\ pkt.ether_type = ETH_P_IP
    /\ \/ pkt.proto = PROTOCOL_TCP /\ pkt.len >= 54
       \/ pkt.proto = PROTOCOL_UDP /\ pkt.len >= 42

(* The buffer ends before the end of a header the classifier needs *)
Short(pkt) ==
    \/ pkt.len < 14
    \/ pkt.ether_type = ETH_P_IP /\ pkt.len < 34
    \/ pkt.ether_type = ETH_P_IP /\ pkt.proto = PROTOCOL_TCP /\ pkt.len < 54
    \/ pkt.ether_type = ETH_P_IP /\ pkt.proto = PROTOCOL_UDP /\ pkt.len < 42

SrcKey(pkt) == [ip |-> pkt.src, port |-> pkt.sport, protocol |-> pkt.proto,
                direction |-> DIRECTION_INBOUND]
DstKey(pkt) == [ip |-> pkt.dst, port |-> pkt.dport, protocol |-> pkt.proto,
                direction |-> DIRECTION_OUTBOUND]

(* The flow key of the side that the run of lane l is updating *)
SideKey(l) ==
    IF lanes[l].dir = DIRECTION_INBOUND THEN SrcKey(lanes[l].pkt) ELSE DstKey(lanes[l].pkt)

(* The flow keys, addresses and ports of the sides of pkt that are watched *)
WatchedKeys(pkt) == {SrcKey(pkt) : x \in {pkt.src} \cap TARGET_IP}
                    \cup {DstKey(pkt) : x \in {pkt.dst} \cap TARGET_IP}
SidesOfIp(pkt, ip) == Cardinality({k \in WatchedKeys(pkt) : k.ip = ip})
SidesOfPort(pkt, port) == Cardinality({k \in WatchedKeys(pkt) : k.port = port})

(* Counters of an entry, 0 for a key the map does not hold *)
InPackets(m, k)  == IF k \in DOMAIN m THEN m[k].inbound_packets ELSE 0
InBytes(m, k)    == IF k \in DOMAIN m THEN m[k].inbound_bytes ELSE 0
OutPackets(m, k) == IF k \in DOMAIN m THEN m[k].outbound_packets ELSE 0
OutBytes(m, k)   == IF k \in DOMAIN m THEN m[k].outbound_bytes ELSE 0
ProtoPackets(m, ip, pr) ==
    IF ip \notin DOMAIN m THEN 0
    ELSE IF pr = PROTOCOL_TCP THEN m[ip].tcp_packets ELSE m[ip].udp_packets
ProtoBytes(m, ip, pr) ==
    IF ip \notin DOMAIN m THEN 0
    ELSE IF pr = PROTOCOL_TCP THEN m[ip].tcp_bytes ELSE m[ip].udp_bytes
PortPackets(m, port) == IF port \in DOMAIN m THEN m[port].total_packets ELSE 0
PortBytes(m, port)   == IF port \in DOMAIN m THEN m[port].total_bytes ELSE 0

(* Entry k is the same in map m and in map mNext *)
SameEntry(m, mNext, k) ==
    /\ (k \in DOMAIN mNext) <=> (k \in DOMAIN m)
    /\ k \in DOMAIN m => mNext[k] = m[k]

MapsUnchanged == UNCHANGED <<FLOW_STATS, IP_PROTOCOL_STATS, PORT_STATS>>

(* The map holds every key of ks or has room for those it does not hold *)
HasRoom(m, other, max, ks) == Cardinality(DOMAIN m \cup ks) + other <= max

(* The run added one packet of len bytes to direction k.direction of flow  *)
(* entry k and nothing to its other direction                              *)
FlowCounted(k, len) ==
    /\ k \in DOMAIN FLOW_STATS'
    /\ InPackets(FLOW_STATS', k) = InPackets(Flow0, k)
            + (IF k.direction = DIRECTION_INBOUND THEN 1 ELSE 0)
    /\ InBytes(FLOW_STATS', k) = InBytes(Flow0, k)
            + (IF k.direction = DIRECTION_INBOUND THEN len ELSE 0)
    /\ OutPackets(FLOW_STATS', k) = OutPackets(Flow0, k)
            + (IF k.direction = DIRECTION_OUTBOUND THEN 1 ELSE 0)
    /\ OutBytes(FLOW_STATS', k) = OutBytes(Flow0, k)
            + (IF k.direction = DIRECTION_OUTBOUND THEN len ELSE 0)

----------------------------------------------------------------------------
(* C1 *)

OneSided(pkt) == Complete(pkt) /\ ((pkt.src \in TARGET_IP) # (pkt.dst \in TARGET_IP))

MatchedKey(pkt) == IF pkt.src \in TARGET_IP THEN SrcKey(pkt) ELSE DstKey(pkt)

OneSidedEffect(pkt) ==
    /\ FlowCounted(MatchedKey(pkt), pkt.tot_len)
    /\ \A j \in FlowKeys \ {MatchedKey(pkt)} : SameEntry(Flow0, FLOW_STATS', j)

\* C1 as claimed: every run on a complete IPv4 TCP/UDP packet with exactly one
\* watched side changes exactly one flow entry, the matched side's, by one packet
\* and tot_len bytes in that direction; stated for the runs that no other run
\* overlaps.  (Fails when FLOW_STATS is full and the key is new.)
C1_AsClaimed ==
    [][(RanAlone /\ OneSided(last'.pkt)) => OneSidedEffect(last'.pkt)]_vars

\* C1 (amended): a run that no other run overlaps, on a complete IPv4 TCP/UDP
\* packet with exactly one watched side, whose flow key is in FLOW_STATS or for
\* which FLOW_STATS has room, adds one packet and tot_len bytes to that direction
\* of exactly that entry and leaves every other flow entry and the entry's other
\* direction alone; when the key is new and the map is full, FLOW_STATS is
\* unchanged.
C1_OneSidedCount ==
    [][(RanAlone /\ OneSided(last'.pkt)) =>
          IF HasRoom(Flow0, flow_other, FLOW_MAX_ENTRIES, {MatchedKey(last'.pkt)})
          THEN OneSidedEffect(last'.pkt)
          ELSE FLOW_STATS' = Flow0]_vars

\* a one-sided packet was counted onto an entry that an earlier packet created
C1_Witness ==
    /\ last.alone
    /\ OneSided(last.pkt)
    /\ last.ret = XDP_PASS
    /\ MatchedKey(last.pkt) \in DOMAIN FLOW_STATS
    /\ FLOW_STATS[MatchedKey(last.pkt)].connection_count = 2


----------------------------------------------------------------------------
(* C2 *)

TwoSided(pkt) == Complete(pkt) /\ pkt.src \in TARGET_IP /\ pkt.dst \in TARGET_IP

(* Every address and port got one packet of len bytes per watched side on it *)
ProtoAndPortCounted(pkt) ==
    /\ \A ip \in IPs :
          /\ ProtoPackets(IP_PROTOCOL_STATS', ip, pkt.proto)
                = ProtoPackets(Proto0, ip, pkt.proto) + SidesOfIp(pkt, ip)
          /\ ProtoBytes(IP_PROTOCOL_STATS', ip, pkt.proto)
                = ProtoBytes(Proto0, ip, pkt.proto)
                  + SidesOfIp(pkt, ip) * pkt.tot_len
    /\ \A port \in Ports :
          /\ PortPackets(PORT_STATS', port)
                = PortPackets(Port0, port) + SidesOfPort(pkt, port)
          /\ PortBytes(PORT_STATS', port)
                = PortBytes(Port0, port) + SidesOfPort(pkt, port) * pkt.tot_len

TwoSidedEffect(pkt) ==
    /\ FlowCounted(SrcKey(pkt), pkt.tot_len)
    /\ FlowCounted(DstKey(pkt), pkt.tot_len)
    /\ \A j \in FlowKeys \ {SrcKey(pkt), DstKey(pkt)} : SameEntry(Flow0, FLOW_STATS', j)
    /\ ProtoAndPortCounted(pkt)

(* No insert of a run on pkt can be rejected for capacity *)
RoomFor(pkt) ==
    /\ HasRoom(Flow0, flow_other, FLOW_MAX_ENTRIES, WatchedKeys(pkt))
    /\ HasRoom(Proto0, proto_other, PROTO_MAX_ENTRIES,
               {k.ip : k \in WatchedKeys(pkt)})
    /\ HasRoom(Port0, port_other, PORT_MAX_ENTRIES,
               {k.port : k \in WatchedKeys(pkt)})

\* C2 as claimed: every run on a complete packet with both addresses watched
\* updates the inbound entry of the source and the outbound entry of the
\* destination by one packet and tot_len bytes each, and the protocol and port
\* maps once per side; stated for the runs that no other run overlaps.  (Fails
\* when an insert is rejected by a full map.)
C2_AsClaimed ==
    [][(RanAlone /\ TwoSided(last'.pkt)) => TwoSidedEffect(last'.pkt)]_vars

\* C2 (amended): when no insert is rejected because its map is full, a run that
\* no other run overlaps, on a complete packet with both addresses watched, adds
\* one packet and tot_len bytes
\* to the inbound entry (source ip, source port, protocol) and to the outbound
\* entry (destination ip, destination port, protocol), and one packet and tot_len
\* bytes per side to the protocol entry of that side's address and to the port
\* entry of that side's port.
C2_BothSidesCount ==
    [][(RanAlone /\ TwoSided(last'.pkt) /\ RoomFor(last'.pkt))
          => TwoSidedEffect(last'.pkt)]_vars

\* a packet between two watched hosts was counted on both of its flow entries
C2_Witness ==
    /\ last.alone
    /\ TwoSided(last.pkt)
    /\ last.pkt.src # last.pkt.dst
    /\ last.ret = XDP_PASS
    /\ {SrcKey(last.pkt), DstKey(last.pkt)} \subseteq DOMAIN FLOW_STATS
    /\ FLOW_STATS[SrcKey(last.pkt)].last_seen = last.ts
    /\ FLOW_STATS[DstKey(last.pkt)].last_seen = last.ts

----------------------------------------------------------------------------
(* C3 *)

\* C3: a run on a buffer that ends before the end of a header the classifier
\* needs (Ethernet at 0; IPv4 at 14 when the ether-type is IPv4; TCP or UDP at 34
\* when the protocol is TCP or UDP) returns XDP_ABORTED, which is not XDP_PASS,
\* and changes none of the three maps.
C3_ShortBufferAborts ==
    [][(Ran /\ Short(last'.pkt)) =>
          /\ last'.ret = XDP_ABORTED
          /\ XDP_ABORTED # XDP_PASS
          /\ MapsUnchanged]_vars

\* a TCP segment from a watched source, cut one byte short of its TCP header,
\* was aborted
C3_Witness ==
    /\ last.pkt.len = 53
    /\ last.pkt.proto = PROTOCOL_TCP
    /\ last.pkt.ether_type = ETH_P_IP
    /\ last.pkt.src \in TARGET_IP
    /\ last.ret = XDP_ABORTED

----------------------------------------------------------------------------
(* C4 *)

\* C4: every completed run returned XDP_PASS or XDP_ABORTED, and XDP_PASS when no
\* header it needed was cut short, watched or not, inserts accepted or not.
C4_PassOrAborted ==
    last # NoRun =>
        /\ last.ret \in {XDP_PASS, XDP_ABORTED}
        /\ last.ret \notin {XDP_DROP, XDP_TX, XDP_REDIRECT}
        /\ ~Short(last.pkt) => last.ret = XDP_PASS

\* a run whose protocol-map insert was rejected by the full map returned XDP_PASS
C4_Witness ==
    /\ Complete(last.pkt)
    /\ last.pkt.src \in TARGET_IP
    /\ proto_other = PROTO_MAX_ENTRIES
    /\ last.pkt.src \notin DOMAIN IP_PROTOCOL_STATS
    /\ last.ret = XDP_PASS

----------------------------------------------------------------------------
(* C5 *)

(* The ether-type was read and is not IPv4, or the IPv4 header was read and *)
(* its protocol is neither TCP nor UDP                                      *)
Unsupported(pkt) ==
    \/ pkt.len >= 14 /\ pkt.ether_type # ETH_P_IP
    \/ pkt.len >= 34 /\ pkt.ether_type = ETH_P_IP
                     /\ pkt.proto \notin {PROTOCOL_TCP, PROTOCOL_UDP}

\* C5: a run on a frame that is not IPv4, or on an IPv4 packet that is neither TCP
\* nor UDP, returns XDP_PASS and changes none of the three maps, watched addresses
\* or not; no step of a run on a complete TCP/UDP packet with neither address
\* watched changes any of the three maps, whatever other runs do meanwhile, and
\* the run returns XDP_PASS.
C5_UnsupportedOrUnwatched ==
    [][/\ (Ran /\ Unsupported(last'.pkt)) => (last'.ret = XDP_PASS /\ MapsUnchanged)
       /\ \A l \in Lanes :
             (Steps(l) /\ Complete(Carried(l)) /\ Carried(l).src \notin TARGET_IP
                                              /\ Carried(l).dst \notin TARGET_IP)
                 => MapsUnchanged
       /\ (Ran /\ Complete(last'.pkt) /\ last'.pkt.src \notin TARGET_IP
                                      /\ last'.pkt.dst \notin TARGET_IP)
             => last'.ret = XDP_PASS]_vars

\* an ICMP packet from a watched source was passed
C5_Witness ==
    /\ last.pkt.ether_type = ETH_P_IP
    /\ last.pkt.proto = IPPROTO_ICMP
    /\ last.pkt.len >= 34
    /\ last.pkt.src \in TARGET_IP
    /\ last.ret = XDP_PASS

----------------------------------------------------------------------------
(* C6 *)

MapsEmpty ==
    /\ MapLen(Flow0, flow_other) = 0
    /\ MapLen(Proto0, proto_other) = 0
    /\ MapLen(Port0, port_other) = 0

FirstFlowEntry(pkt, ts) ==
    /\ SrcKey(pkt) \in DOMAIN FLOW_STATS'
    /\ FLOW_STATS'[SrcKey(pkt)] =
          [inbound_packets |-> 1, inbound_bytes |-> pkt.tot_len, outbound_packets |-> 0,
           outbound_bytes |-> 0, protocol |-> pkt.proto, last_seen |-> ts,
           connection_count |-> 1]

(* The protocol entry of ip holds n packets of protocol pr, len bytes each *)
FirstProtoEntry(ip, pr, len, n) ==
    /\ ip \in DOMAIN IP_PROTOCOL_STATS'
    /\ IP_PROTOCOL_STATS'[ip] =
          IF pr = PROTOCOL_TCP
          THEN [tcp_flows |-> n, udp_flows |-> 0, tcp_bytes |-> n * len, udp_bytes |-> 0,
                tcp_packets |-> n, udp_packets |-> 0]
          ELSE [tcp_flows |-> 0, udp_flows |-> n, tcp_bytes |-> 0, udp_bytes |-> n * len,
                tcp_packets |-> 0, udp_packets |-> n]

(* The port entry of port holds n packets, len bytes each *)
FirstPortEntry(port, len, n) ==
    /\ port \in DOMAIN PORT_STATS'
    /\ PORT_STATS'[port].total_packets = n
    /\ PORT_STATS'[port].total_bytes = n * len
    /\ PORT_STATS'[port].active_connections = n

\* C6 as claimed: from empty maps, the first packet of a watched source creates the
\* flow entry (1, L, 0, 0, count 1, last_seen = its timestamp), a protocol entry
\* with 1 packet, L bytes, 1 flow on its protocol's side and 0 on the other, and a
\* port entry with 1 packet, L bytes, 1 connection; stated for a run that no
\* other run overlaps.  (Fails when the destination is watched too and shares
\* the address or the port.)
C6_AsClaimed ==
    [][(RanAlone /\ MapsEmpty /\ Complete(last'.pkt) /\ last'.pkt.src \in TARGET_IP) =>
          /\ FirstFlowEntry(last'.pkt, last'.ts)
          /\ FirstProtoEntry(last'.pkt.src, last'.pkt.proto, last'.pkt.tot_len, 1)
          /\ FirstPortEntry(last'.pkt.sport, last'.pkt.tot_len, 1)]_vars

\* C6 (amended): from empty maps, the first packet of a watched source (protocol P,
\* source port p, length L), classified by a run that no other run overlaps,
\* creates the flow entry (ip, p, P, inbound) with
\* inbound 1 packet and L bytes, outbound 0 and 0, connection_count 1 and
\* last_seen its timestamp; a protocol entry for ip with n packets, n*L bytes and
\* n flows on the P side and 0 on the other side, and a port entry for p with m
\* packets, m*L bytes and m connections, where n and m are 1 unless the
\* destination is watched too: n is 2 when it is the same address, m is 2 when it
\* is the same port.
C6_FirstPacket ==
    [][(RanAlone /\ MapsEmpty /\ Complete(last'.pkt) /\ last'.pkt.src \in TARGET_IP) =>
          /\ FirstFlowEntry(last'.pkt, last'.ts)
          /\ FirstProtoEntry(last'.pkt.src, last'.pkt.proto, last'.pkt.tot_len,
                             SidesOfIp(last'.pkt, last'.pkt.src))
          /\ FirstPortEntry(last'.pkt.sport, last'.pkt.tot_len,
                            SidesOfPort(last'.pkt, last'.pkt.sport))]_vars

\* the end-to-end scenario: TCP 10.0.0.5:443 -> 10.0.0.1:51000 of 100 bytes, with
\* 10.0.0.5 watched, was the first packet
C6_Witness ==
    /\ last.alone
    /\ npkts = 1
    /\ TARGET_IP = {IpA}
    /\ flow_other = 0 /\ proto_other = 0 /\ port_other = 0
    /\ last.pkt = [len |-> 54, ether_type |-> ETH_P_IP, proto |-> PROTOCOL_TCP,
                   src |-> IpA, dst |-> IpB, sport |-> 443, dport |-> 51000,
                   tot_len |-> 100]
    /\ DOMAIN FLOW_STATS = {SrcKey(last.pkt)}
    /\ FLOW_STATS[SrcKey(last.pkt)].inbound_bytes = 100
    /\ IP_PROTOCOL_STATS[IpA].tcp_packets = 1
    /\ PORT_STATS[443].active_connections = 1


----------------------------------------------------------------------------
(* C7 *)

WithinCapacity ==
    /\ MapLen(FLOW_STATS, flow_other) <= FLOW_MAX_ENTRIES
    /\ MapLen(IP_PROTOCOL_STATS, proto_other) <= PROTO_MAX_ENTRIES
    /\ MapLen(PORT_STATS, port_other) <= PORT_MAX_ENTRIES

(* A full map has the same keys after the step *)
FullMapsKeepKeys ==
    /\ MapLen(FLOW_STATS, flow_other) = FLOW_MAX_ENTRIES
          => DOMAIN FLOW_STATS' = DOMAIN FLOW_STATS
    /\ MapLen(IP_PROTOCOL_STATS, proto_other) = PROTO_MAX_ENTRIES
          => DOMAIN IP_PROTOCOL_STATS' = DOMAIN IP_PROTOCOL_STATS
    /\ MapLen(PORT_STATS, port_other) = PORT_MAX_ENTRIES
          => DOMAIN PORT_STATS' = DOMAIN PORT_STATS

(* A run on pkt that started at a full map, with a new key for it, leaves  *)
(* the map's key set alone and returns XDP_PASS                            *)
FullMapKeepsKeys(pkt) ==
    /\ (/\ MapLen(Flow0, flow_other) = FLOW_MAX_ENTRIES
        /\ ~(WatchedKeys(pkt) \subseteq DOMAIN Flow0))
          => (DOMAIN FLOW_STATS' = DOMAIN Flow0 /\ last'.ret = XDP_PASS)
    /\ (/\ MapLen(Proto0, proto_other) = PROTO_MAX_ENTRIES
        /\ ~({k.ip : k \in WatchedKeys(pkt)} \subseteq DOMAIN Proto0))
          => (DOMAIN IP_PROTOCOL_STATS' = DOMAIN Proto0
              /\ last'.ret = XDP_PASS)
    /\ (/\ MapLen(Port0, port_other) = PORT_MAX_ENTRIES
        /\ ~({k.port : k \in WatchedKeys(pkt)} \subseteq DOMAIN Port0))
          => (DOMAIN PORT_STATS' = DOMAIN Port0 /\ last'.ret = XDP_PASS)

\* C7: FLOW_STATS never holds more than 8192 entries, IP_PROTOCOL_STATS and
\* PORT_STATS never more than 1024 each; no step of any run changes the key set
\* of a map that holds its maximum, and a run that would add a new key to such a
\* map leaves that map's key set and size unchanged and returns XDP_PASS.
C7_Capacity ==
    /\ []WithinCapacity
    /\ [][FullMapsKeepKeys]_vars
    /\ [][(RanAlone /\ Complete(last'.pkt)) => FullMapKeepsKeys(last'.pkt)]_vars

\* a packet whose flow key was new was classified with FLOW_STATS full
C7_Witness ==
    /\ MapLen(FLOW_STATS, flow_other) = FLOW_MAX_ENTRIES
    /\ Complete(last.pkt)
    /\ \E k \in WatchedKeys(last.pkt) : k \notin DOMAIN FLOW_STATS
    /\ last.ret = XDP_PASS

----------------------------------------------------------------------------
(* C8 *)

(* A run on pkt at a full map, for a key the map holds, updates the entry *)
FullMapUpdatesKey(pkt) ==
    \A k \in WatchedKeys(pkt) :
        /\ (MapLen(Flow0, flow_other) = FLOW_MAX_ENTRIES /\ k \in DOMAIN Flow0)
              => /\ FlowCounted(k, pkt.tot_len)
                 /\ FLOW_STATS'[k].last_seen = last'.ts
                 /\ FLOW_STATS'[k].connection_count = Flow0[k].connection_count + 1
        /\ (/\ MapLen(Proto0, proto_other) = PROTO_MAX_ENTRIES
            /\ k.ip \in DOMAIN Proto0)
              => /\ ProtoPackets(IP_PROTOCOL_STATS', k.ip, pkt.proto)
                      = ProtoPackets(Proto0, k.ip, pkt.proto)
                        + SidesOfIp(pkt, k.ip)
                 /\ ProtoBytes(IP_PROTOCOL_STATS', k.ip, pkt.proto)
                      = ProtoBytes(Proto0, k.ip, pkt.proto)
                        + SidesOfIp(pkt, k.ip) * pkt.tot_len
        /\ (MapLen(Port0, port_other) = PORT_MAX_ENTRIES /\ k.port \in DOMAIN Port0)
              => /\ PortPackets(PORT_STATS', k.port)
                      = PortPackets(Port0, k.port) + SidesOfPort(pkt, k.port)
                 /\ PortBytes(PORT_STATS', k.port)
                      = PortBytes(Port0, k.port) + SidesOfPort(pkt, k.port) * pkt.tot_len
                 /\ PORT_STATS'[k.port].last_active = last'.ts

(* An insert of lane l under a key that its full map holds replaces the    *)
(* entry by the one the lane built from its copy                           *)
FullMapTakesInsert(l) ==
    /\ (/\ lanes[l].pc = "flow_put"
        /\ MapLen(FLOW_STATS, flow_other) = FLOW_MAX_ENTRIES
        /\ SideKey(l) \in DOMAIN FLOW_STATS)
          => /\ FLOW_STATS'[SideKey(l)].last_seen = lanes[l].ts
             /\ FLOW_STATS'[SideKey(l)].connection_count
                   = IF lanes[l].got = None THEN 1 ELSE lanes[l].got.connection_count + 1
    /\ (/\ lanes[l].pc = "proto_put"
        /\ MapLen(IP_PROTOCOL_STATS, proto_other) = PROTO_MAX_ENTRIES
        /\ SideKey(l).ip \in DOMAIN IP_PROTOCOL_STATS)
          => ProtoPackets(IP_PROTOCOL_STATS', SideKey(l).ip, Carried(l).proto)
                = IF lanes[l].got = None THEN 1
                  ELSE IF Carried(l).proto = PROTOCOL_TCP
                  THEN lanes[l].got.tcp_packets + 1 ELSE lanes[l].got.udp_packets + 1
    /\ (/\ lanes[l].pc = "port_put"
        /\ MapLen(PORT_STATS, port_other) = PORT_MAX_ENTRIES
        /\ SideKey(l).port \in DOMAIN PORT_STATS)
          => /\ PORT_STATS'[SideKey(l).port].last_active = lanes[l].ts
             /\ PORT_STATS'[SideKey(l).port].total_packets
                   = IF lanes[l].got = None THEN 1 ELSE lanes[l].got.total_packets + 1

\* C8: when a map holds its maximum number of entries, a run whose key is already
\* in that map updates the entry as in a map with room: in a run that no other
\* run overlaps, the flow entry gains one packet and tot_len bytes in its
\* direction, connection_count + 1 and last_seen = the timestamp; the protocol
\* and port entries gain one packet and tot_len bytes per watched side, the port
\* entry's last_active = the timestamp; in every run, overlapped or not, each
\* insert under such a key replaces the entry by the copy the run read plus the
\* packet.
C8_FullMapUpdatesExisting ==
    /\ [][(RanAlone /\ Complete(last'.pkt)) => FullMapUpdatesKey(last'.pkt)]_vars
    /\ [][\A l \in Lanes : Steps(l) => FullMapTakesInsert(l)]_vars

\* the packet that filled FLOW_STATS was followed by a second one of the same flow
C8_Witness ==
    /\ last.alone
    /\ flow_other = FLOW_MAX_ENTRIES - 1
    /\ OneSided(last.pkt)
    /\ DOMAIN FLOW_STATS = {MatchedKey(last.pkt)}
    /\ FLOW_STATS[MatchedKey(last.pkt)].connection_count = 2
    /\ FLOW_STATS[MatchedKey(last.pkt)].last_seen = last.ts

----------------------------------------------------------------------------
(* C9 *)

NoCounterDecreases ==
    /\ \A k \in DOMAIN FLOW_STATS :
          /\ k \in DOMAIN FLOW_STATS'
          /\ FLOW_STATS'[k].inbound_packets >= FLOW_STATS[k].inbound_packets
          /\ FLOW_STATS'[k].inbound_bytes >= FLOW_STATS[k].inbound_bytes
          /\ FLOW_STATS'[k].outbound_packets >= FLOW_STATS[k].outbound_packets
          /\ FLOW_STATS'[k].outbound_bytes >= FLOW_STATS[k].outbound_bytes
    /\ \A ip \in DOMAIN IP_PROTOCOL_STATS :
          /\ ip \in DOMAIN IP_PROTOCOL_STATS'
          /\ IP_PROTOCOL_STATS'[ip].tcp_packets >= IP_PROTOCOL_STATS[ip].tcp_packets
          /\ IP_PROTOCOL_STATS'[ip].tcp_bytes >= IP_PROTOCOL_STATS[ip].tcp_bytes
          /\ IP_PROTOCOL_STATS'[ip].udp_packets >= IP_PROTOCOL_STATS[ip].udp_packets
          /\ IP_PROTOCOL_STATS'[ip].udp_bytes >= IP_PROTOCOL_STATS[ip].udp_bytes
    /\ \A port \in DOMAIN PORT_STATS :
          /\ port \in DOMAIN PORT_STATS'
          /\ PORT_STATS'[port].total_packets >= PORT_STATS[port].total_packets
          /\ PORT_STATS'[port].total_bytes >= PORT_STATS[port].total_bytes

\* C9: no step of any interleaving of the lanes makes a packet or byte counter of
\* an entry of FLOW_STATS, IP_PROTOCOL_STATS or PORT_STATS smaller, or removes the
\* entry.
C9_CountersMonotonic == [][NoCounterDecreases]_vars

----------------------------------------------------------------------------
(* C10 *)

FlowPacketsOf(k) == InPackets(FLOW_STATS, k) + OutPackets(FLOW_STATS, k)

\* C10 as claimed: once n >= 1 packets of one flow key have been classified, in
\* any interleaving, the key's packet counter is at least 1 and at most n.
\* (Fails when FLOW_STATS is full and the key is new: the key stays absent.)
C10_AsClaimed ==
    Quiescent =>
        \A k \in DOMAIN done :
            /\ k \in DOMAIN FLOW_STATS
            /\ 1 <= FlowPacketsOf(k)
            /\ FlowPacketsOf(k) <= done[k]

\* C10 (amended): after n >= 1 FLOW_STATS updates for one key, in any
\* interleaving, the key's packet counter is at least 1 and at most n if the key
\* is in the map; if it is not, every insert was rejected and the map is full.
\* There is an interleaving of two packets of one key that ends with the counter
\* at 1 (C10_Witness): the updates are not atomic.
C10_LostUpdateBounds ==
    \A k \in DOMAIN done :
        IF k \in DOMAIN FLOW_STATS
        THEN 1 <= FlowPacketsOf(k) /\ FlowPacketsOf(k) <= done[k]
        ELSE MapLen(FLOW_STATS, flow_other) = FLOW_MAX_ENTRIES

\* two packets of one flow key were classified and one increment was lost
C10_Witness ==
    /\ Quiescent
    /\ \E k \in DOMAIN done :
          /\ done[k] = 2
          /\ k \in DOMAIN FLOW_STATS
          /\ FlowPacketsOf(k) = 1
          /\ FLOW_STATS[k].connection_count = 1


----------------------------------------------------------------------------
(* Part 2: the user-space program.                                         *)

kernelVars == <<TARGET_IP, FLOW_STATS, IP_PROTOCOL_STATS, PORT_STATS, flow_other,
                proto_other, port_other, ktime, npkts, last, lanes, done>>

----------------------------------------------------------------------------
(* The listener configuration manager (listener_config.rs).                *)
(*                                                                         *)
(* An address string is modelled by the decimal numbers between its dots:  *)
(* "10.0.0.5" is <<10, 0, 0, 5>>.  Ipv4Addr's parser accepts four numbers  *)
(* of at most 255 each; u32::from(Ipv4Addr) reads the four octets as one   *)
(* big-endian number.                                                      *)

IpStrings == {<<10, 0, 0, 5>>, <<10, 0, 0, 1>>, <<256, 256, 256, 256>>, <<10, 0, 5>>}

parse_ip(ip_str) ==
    IF Len(ip_str) = 4 /\ \A i \in 1..4 : ip_str[i] \in 0..255
    THEN [ok |-> TRUE,
          ip |-> ((ip_str[1] * 256 + ip_str[2]) * 256 + ip_str[3]) * 256 + ip_str[4]]
    ELSE [ok |-> FALSE]

(* add_listen_ip and remove_listen_ip on the set ips: the set afterwards   *)
(* and the result, "Err" or the success flag of ListenerOperationResult.   *)
add_listen_ip(ips, ip_str) ==
    LET p == parse_ip(ip_str)
    IN  IF ~p.ok THEN [ips |-> ips, ret |-> "Err"]
        ELSE IF p.ip \in ips THEN [ips |-> ips, ret |-> "Ok(success: false)"]
        ELSE [ips |-> ips \cup {p.ip}, ret |-> "Ok(success: true)"]

remove_listen_ip(ips, ip_str) ==
    LET p == parse_ip(ip_str)
    IN  IF ~p.ok THEN [ips |-> ips, ret |-> "Err"]
        ELSE IF p.ip \notin ips THEN [ips |-> ips, ret |-> "Ok(success: false)"]
        ELSE [ips |-> ips \ {p.ip}, ret |-> "Ok(success: true)"]

(* The two calls change the manager's set and nothing else: no code of the *)
(* program writes the TARGET_IP map after main() has loaded it.            *)
AddListenIp(ip_str) ==
    /\ LET r == add_listen_ip(listen_ips, ip_str)
       IN  /\ listen_ips' = r.ips
           /\ out' = [op |-> "add_listen_ip", ip_str |-> ip_str, ret |-> r.ret]
    /\ UNCHANGED <<kernelVars, db, now, nstores, previous_totals, last_snapshot_time,
                   appVars>>

RemoveListenIp(ip_str) ==
    /\ LET r == remove_listen_ip(listen_ips, ip_str)
       IN  /\ listen_ips' = r.ips
           /\ out' = [op |-> "remove_listen_ip", ip_str |-> ip_str, ret |-> r.ret]
    /\ UNCHANGED <<kernelVars, db, now, nstores, previous_totals, last_snapshot_time,
                   appVars>>

NextListen ==
    \/ \E ip_str \in IpStrings : AddListenIp(ip_str)
    \/ \E ip_str \in IpStrings : RemoveListenIp(ip_str)
    \/ \E l \in Lanes :
          \/ \E pkt \in LanePackets : npkts < MaxPackets /\ LaneStart(l, pkt)
          \/ LaneStep(l)

(* 10.0.0.5 is the one target address and the maps hold no other entries   *)
InitListen ==
    /\ Init
    /\ TARGET_IP = {IpA}
    /\ flow_other = 0
    /\ proto_other = 0
    /\ port_other = 0

SpecListen == InitListen /\ [][NextListen]_vars

----------------------------------------------------------------------------
(* C11: the set of addresses the classifier tests (TARGET_IP) is always    *)
(* the configuration manager's current set (listen_ips): an address added  *)
(* with add_listen_ip is watched from then on, an address removed with     *)
(* remove_listen_ip is no longer watched.                                  *)
(* The program does not keep it: after a successful add_listen_ip or       *)
(* remove_listen_ip the two sets differ.                                   *)
C11_WatchListFollowsConfig ==
    TARGET_IP = listen_ips

----------------------------------------------------------------------------
(* SpecConfig: the calls of the configuration manager and the two          *)
(* validation functions, one call per step.  A port is a u16.              *)

MaxPort == 65535

ListenPorts == {0, 1, 8080, MaxPort}

add_listen_port_NoZeroCheck(ports, port) ==
    IF port \in ports THEN [ports |-> ports, ret |-> "Ok(success: false)"]
    ELSE [ports |-> ports \cup {port}, ret |-> "Ok(success: true)"]

add_listen_port(ports, port) ==
    IF port = 0 THEN [ports |-> ports, ret |-> "Err"]
    ELSE IF port \in ports THEN [ports |-> ports, ret |-> "Ok(success: false)"]
    ELSE [ports |-> ports \cup {port}, ret |-> "Ok(success: true)"]

remove_listen_port_KeepsPort(ports, port) ==
    IF port \notin ports THEN [ports |-> ports, ret |-> "Ok(success: false)"]
    ELSE [ports |-> ports, ret |-> "Ok(success: true)"]

remove_listen_port(ports, port) ==
    IF port \notin ports THEN [ports |-> ports, ret |-> "Ok(success: false)"]
    ELSE [ports |-> ports \ {port}, ret |-> "Ok(success: true)"]

validate_ip_address(ip) ==
    IF Len(ip) = 4 /\ \A i \in 1..4 : ip[i] \in 0..255 THEN "Ok" ELSE "Err"

(* port > 65535 is never true of a u16 *)
validate_port(port) ==
    IF port = 0 THEN "Err"
    ELSE IF port > MaxPort THEN "Err"
    ELSE "Ok"

configFrame == <<kernelVars, db, now, nstores, previous_totals, last_snapshot_time,
                 mainVars>>

AddListenPort(port) ==
    /\ LET r == add_listen_port(listen_ports, port)
       IN  /\ listen_ports' = r.ports
           /\ out' = [op |-> "add_listen_port", port |-> port, ret |-> r.ret]
    /\ UNCHANGED <<configFrame, listen_ips>>

RemoveListenPort(port) ==
    /\ LET r == remove_listen_port(listen_ports, port)
       IN  /\ listen_ports' = r.ports
           /\ out' = [op |-> "remove_listen_port", port |-> port, ret |-> r.ret]
    /\ UNCHANGED <<configFrame, listen_ips>>

ValidateIpAddress(ip) ==
    /\ out' = [op |-> "validate_ip_address", ip_str |-> ip, ret |-> validate_ip_address(ip)]
    /\ UNCHANGED <<configFrame, listen_ips, listen_ports>>

ValidatePort(port) ==
    /\ out' = [op |-> "validate_port", port |-> port, ret |-> validate_port(port)]
    /\ UNCHANGED <<configFrame, listen_ips, listen_ports>>

NextConfig ==
    \/ \E ip_str \in IpStrings : AddListenIp(ip_str)
    \/ \E ip_str \in IpStrings : RemoveListenIp(ip_str)
    \/ \E port \in ListenPorts : AddListenPort(port)
    \/ \E port \in ListenPorts : RemoveListenPort(port)
    \/ \E ip_str \in IpStrings : ValidateIpAddress(ip_str)
    \/ \E port \in ListenPorts : ValidatePort(port)

SpecConfig == InitListen /\ [][NextConfig]_vars

----------------------------------------------------------------------------
(* C27, C28 *)

IpOps == {"add_listen_ip", "remove_listen_ip"}
PortOps == {"add_listen_port", "remove_listen_port"}
AddOps == {"add_listen_ip", "add_listen_port"}

(* The step is a call on the manager; Item is what the call is about (the  *)
(* parsed address or the port) and Held the set it acts on                 *)
Called == out'.op \in IpOps \cup PortOps
Item == IF out'.op \in IpOps THEN parse_ip(out'.ip_str).ip ELSE out'.port
Held == IF out'.op \in IpOps THEN listen_ips ELSE listen_ports
HeldAfter == IF out'.op \in IpOps THEN listen_ips' ELSE listen_ports'
Invalid ==
    IF out'.op \in IpOps \cup {"validate_ip_address"}
    THEN ~parse_ip(out'.ip_str).ok
    ELSE out'.op \in {"add_listen_port", "validate_port"} /\ out'.port = 0

\* C27: a call of add_listen_ip or add_listen_port with a valid item returns
\* success = true exactly when the item was not in the set, and the item is in
\* the set afterwards; when it was in the set the call returns success = false
\* and the set is unchanged (adding twice leaves one item).  remove_listen_ip and
\* remove_listen_port return success = true exactly when the item was in the
\* set, and it is not in the set afterwards; otherwise they return
\* success = false and the set is unchanged.  The other set never changes.
C27_AddRemoveResults ==
    [][(Called /\ ~Invalid) =>
          /\ out'.ret \in {"Ok(success: true)", "Ok(success: false)"}
          /\ IF out'.op \in AddOps
             THEN /\ (out'.ret = "Ok(success: true)") <=> (Item \notin Held)
                  /\ HeldAfter = Held \cup {Item}
             ELSE /\ (out'.ret = "Ok(success: true)") <=> (Item \in Held)
                  /\ HeldAfter = Held \ {Item}
          /\ (out'.ret = "Ok(success: false)") => HeldAfter = Held
          /\ out'.op \in IpOps => listen_ports' = listen_ports
          /\ out'.op \in PortOps => listen_ips' = listen_ips]_vars

\* a second add of a held port was refused next to a held address
C27_Witness ==
    /\ out.op = "add_listen_port"
    /\ out.port = 8080
    /\ out.ret = "Ok(success: false)"
    /\ listen_ports = {8080}
    /\ listen_ips = {IpA}

\* C28: invalid input is an error and changes nothing: validate_port and
\* add_listen_port return Err for port 0 and do not return Err for a port in
\* 1..65535; validate_ip_address, add_listen_ip and remove_listen_ip return Err
\* for a string that is not a dotted IPv4 address and do not for one that is;
\* after a call that returned Err listen_ips and listen_ports are what they
\* were.
C28_InvalidInputRejected ==
    [][out' # out =>
          /\ out'.op # "remove_listen_port" => ((out'.ret = "Err") <=> Invalid)
          /\ out'.op = "remove_listen_port" => out'.ret # "Err"
          /\ out'.ret = "Err" =>
                listen_ips' = listen_ips /\ listen_ports' = listen_ports]_vars

\* add_listen_port(0) was refused while an address and a port were held
C28_Witness ==
    /\ out.op = "add_listen_port"
    /\ out.port = 0
    /\ out.ret = "Err"
    /\ listen_ports = {MaxPort}
    /\ listen_ips = {IpA, IpB}

----------------------------------------------------------------------------
(* Strings (storage.rs).                                                   *)
(*                                                                         *)
(* A key is a sequence of one-character strings.  Rust compares str values *)
(* byte by byte; Alphabet lists the characters the keys are made of in     *)
(* the order of their ASCII codes, and a proper prefix precedes its        *)
(* extensions.                                                             *)

Alphabet ==
    <<"-", "0", "1", "2", "3", "4", "5", "6", "7", "8", "9", ":", "_",
      "a", "c", "f", "i", "l", "o", "p", "r", "s", "t", "w">>

Ord == [c \in {Alphabet[i] : i \in DOMAIN Alphabet} |->
            CHOOSE i \in DOMAIN Alphabet : Alphabet[i] = c]

(* a < b on str: at the first position where they differ the smaller byte  *)
(* decides; with no such position the shorter one is smaller.              *)
StrLess(a, b) ==
    LET n    == IF Len(a) < Len(b) THEN Len(a) ELSE Len(b)
        diff == {i \in 1..n : a[i] # b[i]}
    IN  IF diff = {} THEN Len(a) < Len(b)
        ELSE LET i == CHOOSE x \in diff : \A y \in diff : x <= y
             IN  Ord[a[i]] < Ord[b[i]]

StrGreater(a, b) == StrLess(b, a)

StrLessEq(a, b) == ~StrLess(b, a)

starts_with(str, prefix) ==
    Len(prefix) <= Len(str) /\ SubSeq(str, 1, Len(prefix)) = prefix

(* format!("{}", n) of an unsigned number *)
DigitChars == <<"0", "1", "2", "3", "4", "5", "6", "7", "8", "9">>

RECURSIVE Decimal(_)
Decimal(n) ==
    IF n < 10 THEN <<DigitChars[n + 1]>>
    ELSE Decimal(n \div 10) \o <<DigitChars[(n % 10) + 1]>>

RECURSIVE ZeroFill(_, _)
ZeroFill(digits, width) ==
    IF Len(digits) >= width THEN digits ELSE ZeroFill(<<"0">> \o digits, width)

TS_WIDTH == 10

ZeroPad10Unpadded(ts) ==
    IF ts >= 0 THEN Decimal(ts) ELSE <<"-">> \o Decimal(-ts)

(* format!("{:010}", ts) of the i64 ts: the sign counts in the width *)
ZeroPad10(ts) ==
    IF ts >= 0 THEN ZeroFill(Decimal(ts), TS_WIDTH)
    ELSE <<"-">> \o ZeroFill(Decimal(-ts), TS_WIDTH - 1)

RECURSIVE Join(_)
Join(fields) ==
    IF Len(fields) = 1 THEN fields[1]
    ELSE fields[1] \o <<":">> \o Join(Tail(fields))

(* The record-type tags of the six key families *)
FLOW_TAG == <<"f", "l", "o", "w">>
IP_FLOWS_TAG == <<"i", "p", "_", "f", "l", "o", "w", "s">>
PORT_FLOWS_TAG == <<"p", "o", "r", "t", "_", "f", "l", "o", "w", "s">>
PROTOCOL_TAG == <<"p", "r", "o", "t", "o", "c", "o", "l">>
IP_PROTOCOL_TAG == <<"i", "p", "_", "p", "r", "o", "t", "o", "c", "o", "l">>
PORT_STATS_TAG == <<"p", "o", "r", "t", "_", "s", "t", "a", "t", "s">>

(* The keys store_traffic_snapshot formats *)
key_flow(ts, flow_key) ==
    Join(<<FLOW_TAG, ZeroPad10(ts), Decimal(flow_key.ip), Decimal(flow_key.port),
           Decimal(flow_key.protocol), Decimal(flow_key.direction)>>)

ip_key(ts, flow_key) ==
    Join(<<IP_FLOWS_TAG, Decimal(flow_key.ip), ZeroPad10(ts), Decimal(flow_key.port),
           Decimal(flow_key.protocol), Decimal(flow_key.direction)>>)

port_key(ts, flow_key) ==
    Join(<<PORT_FLOWS_TAG, Decimal(flow_key.port), ZeroPad10(ts), Decimal(flow_key.ip),
           Decimal(flow_key.protocol), Decimal(flow_key.direction)>>)

key_protocol(ts, ip) == Join(<<PROTOCOL_TAG, ZeroPad10(ts), Decimal(ip)>>)

ip_proto_key(ts, ip) == Join(<<IP_PROTOCOL_TAG, Decimal(ip), ZeroPad10(ts)>>)

key_port_stats(ts, port) == Join(<<PORT_STATS_TAG, ZeroPad10(ts), Decimal(port)>>)

----------------------------------------------------------------------------
(* Records and their serialized form (storage.rs, serializable_types.rs).  *)
(*                                                                         *)
(* bincode writes the fields of a record in declaration order; a value is  *)
(* modelled as the sequence of its field values.  Reading a record from a  *)
(* value that ends too early fails; bytes after the record are ignored.    *)
(* Times are whole seconds: the timestamp of a record stands for the       *)
(* timestamp.timestamp() its keys carry.                                   *)

SerializableFlowKey_from(flow_key) ==
    [ip |-> flow_key.ip, port |-> flow_key.port,
     protocol |-> flow_key.protocol, direction |-> flow_key.direction]

SerializableEnhancedTrafficStats_from(stats) ==
    [inbound_packets  |-> stats.inbound_packets,
     inbound_bytes    |-> stats.inbound_bytes,
     outbound_packets |-> stats.outbound_packets,
     outbound_bytes   |-> stats.outbound_bytes,
     protocol         |-> stats.protocol,
     last_seen        |-> stats.last_seen,
     connection_count |-> stats.connection_count]

SerializableProtocolStats_from(stats) ==
    [tcp_flows |-> stats.tcp_flows, udp_flows |-> stats.udp_flows,
     tcp_bytes |-> stats.tcp_bytes, udp_bytes |-> stats.udp_bytes,
     tcp_packets |-> stats.tcp_packets, udp_packets |-> stats.udp_packets]

SerializablePortStats_from(stats) ==
    [port |-> stats.port, protocol |-> stats.protocol,
     total_bytes |-> stats.total_bytes, total_packets |-> stats.total_packets,
     active_connections |-> stats.active_connections,
     last_active |-> stats.last_active]

FlowRecord(timestamp, flow_key, stats) ==
    [timestamp |-> timestamp,
     flow_key  |-> SerializableFlowKey_from(flow_key),
     stats     |-> SerializableEnhancedTrafficStats_from(stats)]

ProtocolRecord(timestamp, ip, stats) ==
    [timestamp |-> timestamp, ip |-> ip,
     stats |-> SerializableProtocolStats_from(stats)]

PortRecord(timestamp, port, stats) ==
    [timestamp |-> timestamp, port |-> port,
     stats |-> SerializablePortStats_from(stats)]

serialize_FlowRecord(r) ==
    <<r.timestamp,
      r.flow_key.ip, r.flow_key.port, r.flow_key.protocol, r.flow_key.direction,
      r.stats.inbound_packets, r.stats.inbound_bytes, r.stats.outbound_packets,
      r.stats.outbound_bytes, r.stats.protocol, r.stats.last_seen,
      r.stats.connection_count>>

serialize_ProtocolRecord(r) ==
    <<r.timestamp, r.ip,
      r.stats.tcp_flows, r.stats.udp_flows, r.stats.tcp_bytes, r.stats.udp_bytes,
      r.stats.tcp_packets, r.stats.udp_packets>>

serialize_PortRecord(r) ==
    <<r.timestamp, r.port,
      r.stats.port, r.stats.protocol, r.stats.total_bytes, r.stats.total_packets,
      r.stats.active_connections, r.stats.last_active>>

deserialize_FlowRecord(value) ==
    IF Len(value) < 12 THEN [ok |-> FALSE]
    ELSE [ok |-> TRUE,
          record |->
            [timestamp |-> value[1],
             flow_key  |-> [ip |-> value[2], port |-> value[3],
                            protocol |-> value[4], direction |-> value[5]],
             stats     |-> [inbound_packets  |-> value[6],
                            inbound_bytes    |-> value[7],
                            outbound_packets |-> value[8],
                            outbound_bytes   |-> value[9],
                            protocol         |-> value[10],
                            last_seen        |-> value[11],
                            connection_count |-> value[12]]]]

deserialize_ProtocolRecord(value) ==
    IF Len(value) < 8 THEN [ok |-> FALSE]
    ELSE [ok |-> TRUE,
          record |->
            [timestamp |-> value[1], ip |-> value[2],
             stats |-> [tcp_flows |-> value[3], udp_flows |-> value[4],
                        tcp_bytes |-> value[5], udp_bytes |-> value[6],
                        tcp_packets |-> value[7], udp_packets |-> value[8]]]]

deserialize_PortRecord(value) ==
    IF Len(value) < 8 THEN [ok |-> FALSE]
    ELSE [ok |-> TRUE,
          record |->
            [timestamp |-> value[1], port |-> value[2],
             stats |-> [port |-> value[3], protocol |-> value[4],
                        total_bytes |-> value[5], total_packets |-> value[6],
                        active_connections |-> value[7],
                        last_active |-> value[8]]]]

----------------------------------------------------------------------------
(* The database: WriteBatch and DB::write (storage.rs).                    *)
(*                                                                         *)
(* A batch is the sequence of its put and delete operations; DB::write     *)
(* applies all of them in order or, when it fails, none.                   *)

Put(key, value) == [op |-> "put", key |-> key, value |-> value]

Delete(key) == [op |-> "delete", key |-> key]

(* Mutation: a put of a key the database holds keeps the stored value *)
db_write_KeepsExisting(d, batch) ==
    LET touched   == {batch[i].key : i \in DOMAIN batch}
        LastOp(k) == batch[CHOOSE i \in DOMAIN batch :
                              /\ batch[i].key = k
                              /\ \A j \in (i + 1)..Len(batch) : batch[j].key # k]
        put       == {k \in touched : LastOp(k).op = "put"}
    IN  [k \in (DOMAIN d \ touched) \cup put |->
            IF k \in put /\ k \notin DOMAIN d THEN LastOp(k).value ELSE d[k]]

(* DB::write: per key the last operation of the batch decides *)
db_write(d, batch) ==
    LET touched   == {batch[i].key : i \in DOMAIN batch}
        LastOp(k) == batch[CHOOSE i \in DOMAIN batch :
                              /\ batch[i].key = k
                              /\ \A j \in (i + 1)..Len(batch) : batch[j].key # k]
        put       == {k \in touched : LastOp(k).op = "put"}
    IN  [k \in (DOMAIN d \ touched) \cup put |->
            IF k \in put THEN LastOp(k).value ELSE d[k]]

(* The puts of the three loops of store_traffic_snapshot; a HashMap is     *)
(* iterated in some order of its keys.                                     *)
RECURSIVE FlowPuts(_, _, _)
FlowPuts(flows, keys, ts) ==
    IF keys = {} THEN << >>
    ELSE LET flow_key == CHOOSE k \in keys : TRUE
             value == serialize_FlowRecord(FlowRecord(ts, flow_key, flows[flow_key]))
         IN  <<Put(key_flow(ts, flow_key), value),
               Put(ip_key(ts, flow_key), value),
               Put(port_key(ts, flow_key), value)>>
             \o FlowPuts(flows, keys \ {flow_key}, ts)

RECURSIVE ProtocolPutsNoIndex(_, _, _)
ProtocolPutsNoIndex(protocols, keys, ts) ==
    IF keys = {} THEN << >>
    ELSE LET ip == CHOOSE k \in keys : TRUE
             value == serialize_ProtocolRecord(ProtocolRecord(ts, ip, protocols[ip]))
         IN  <<Put(key_protocol(ts, ip), value)>>
             \o ProtocolPutsNoIndex(protocols, keys \ {ip}, ts)

RECURSIVE ProtocolPuts(_, _, _)
ProtocolPuts(protocols, keys, ts) ==
    IF keys = {} THEN << >>
    ELSE LET ip == CHOOSE k \in keys : TRUE
             value == serialize_ProtocolRecord(ProtocolRecord(ts, ip, protocols[ip]))
         IN  <<Put(key_protocol(ts, ip), value),
               Put(ip_proto_key(ts, ip), value)>>
             \o ProtocolPuts(protocols, keys \ {ip}, ts)

RECURSIVE PortPuts(_, _, _)
PortPuts(ports, keys, ts) ==
    IF keys = {} THEN << >>
    ELSE LET port == CHOOSE k \in keys : TRUE
             value == serialize_PortRecord(PortRecord(ts, port, ports[port]))
         IN  <<Put(key_port_stats(ts, port), value)>>
             \o PortPuts(ports, keys \ {port}, ts)

BatchOf(flows, protocols, ports, ts) ==
    FlowPuts(flows, DOMAIN flows, ts)
    \o ProtocolPuts(protocols, DOMAIN protocols, ts)
    \o PortPuts(ports, DOMAIN ports, ts)

(* What can go wrong in a call: nothing, bincode::serialize of a record,   *)
(* or DB::write.                                                           *)
Failures == {"none", "serialize", "write"}

store_traffic_snapshot_PutDirectly(d, flows, protocols, ports, ts, fail) ==
    LET batch == BatchOf(flows, protocols, ports, ts)
    IN  IF fail = "none"
        THEN [db |-> db_write(d, batch), ret |-> "Ok", batch |-> batch]
        ELSE [db |-> db_write(d, SubSeq(batch, 1, IF Len(batch) > 0 THEN 1 ELSE 0)),
              ret |-> "Err", batch |-> batch]

(* store_traffic_snapshot at the clock reading ts: the database afterwards, *)
(* the result, and the batch the call built.  Every put goes to the batch; *)
(* the database is touched by the one DB::write at the end, which an error *)
(* return of serialize (the ? operator) never reaches.                     *)
store_traffic_snapshot(d, flows, protocols, ports, ts, fail) ==
    LET batch == BatchOf(flows, protocols, ports, ts)
    IN  IF fail = "none"
        THEN [db |-> db_write(d, batch), ret |-> "Ok", batch |-> batch]
        ELSE [db |-> d, ret |-> "Err", batch |-> batch]

----------------------------------------------------------------------------
(* Range scans (storage.rs).                                               *)
(*                                                                         *)
(* db.iterator(From(start_key), Forward) yields the keys >= start_key in   *)
(* ascending order; every query loop breaks at the first key that does not *)
(* start with its prefix or is greater than its end key.  Each start key   *)
(* starts with the prefix, so a key >= start_key without the prefix is     *)
(* greater than every key with it, and a key after one that is greater     *)
(* than end_key is greater than end_key too: no key after a breaking key   *)
(* passes the test, and the loop body reaches exactly the keys             *)
(* >= start_key that pass it.                                              *)

ScanKeys(d, start_key, prefix, end_key) ==
    {k \in DOMAIN d : /\ starts_with(k, prefix)
                      /\ ~StrLess(k, start_key)
                      /\ ~StrGreater(k, end_key)}

RECURSIVE SortKeys(_)
SortKeys(keys) ==
    IF keys = {} THEN << >>
    ELSE LET first == CHOOSE k \in keys : \A x \in keys : ~StrLess(x, k)
         IN  <<first>> \o SortKeys(keys \ {first})

RECURSIVE CollectUntilFailure(_)
CollectUntilFailure(tried) ==
    IF Len(tried) = 0 \/ ~Head(tried).ok THEN << >>
    ELSE <<Head(tried).record>> \o CollectUntilFailure(Tail(tried))

(* The records pushed to results: the values, in key order, that decode *)
Collect(tried) ==
    LET good == SelectSeq(tried, LAMBDA r : r.ok)
    IN  [i \in 1..Len(good) |-> good[i].record]

ReadFlowRecords(d, keys) ==
    Collect([i \in 1..Len(keys) |-> deserialize_FlowRecord(d[keys[i]])])

ReadProtocolRecords(d, keys) ==
    Collect([i \in 1..Len(keys) |-> deserialize_ProtocolRecord(d[keys[i]])])

ReadPortRecords(d, keys) ==
    Collect([i \in 1..Len(keys) |-> deserialize_PortRecord(d[keys[i]])])

get_ip_flows_history_LooseEnd(d, ip, start_ts, end_ts) ==
    LET prefix    == Join(<<IP_FLOWS_TAG, Decimal(ip)>>) \o <<":">>
        start_key == Join(<<IP_FLOWS_TAG, Decimal(ip), ZeroPad10(start_ts)>>) \o <<":">>
        end_key   == Join(<<IP_FLOWS_TAG, Decimal(ip), ZeroPad10(end_ts)>>)
                     \o <<":", "w">>
    IN  ReadFlowRecords(d, SortKeys(ScanKeys(d, start_key, prefix, end_key)))

get_ip_flows_history(d, ip, start_ts, end_ts) ==
    LET prefix    == Join(<<IP_FLOWS_TAG, Decimal(ip)>>) \o <<":">>
        start_key == Join(<<IP_FLOWS_TAG, Decimal(ip), ZeroPad10(start_ts)>>) \o <<":">>
        end_key   == Join(<<IP_FLOWS_TAG, Decimal(ip), ZeroPad10(end_ts)>>) \o <<":">>
    IN  ReadFlowRecords(d, SortKeys(ScanKeys(d, start_key, prefix, end_key)))

(* The start and end keys of this query have no trailing ':' *)
get_protocol_stats_history(d, ip, start_ts, end_ts) ==
    LET prefix    == Join(<<IP_PROTOCOL_TAG, Decimal(ip)>>) \o <<":">>
        start_key == Join(<<IP_PROTOCOL_TAG, Decimal(ip), ZeroPad10(start_ts)>>)
        end_key   == Join(<<IP_PROTOCOL_TAG, Decimal(ip), ZeroPad10(end_ts)>>)
    IN  ReadProtocolRecords(d, SortKeys(ScanKeys(d, start_key, prefix, end_key)))

get_flows_in_timerange(d, start_ts, end_ts) ==
    LET prefix    == FLOW_TAG \o <<":">>
        start_key == Join(<<FLOW_TAG, ZeroPad10(start_ts)>>) \o <<":">>
        end_key   == Join(<<FLOW_TAG, ZeroPad10(end_ts)>>) \o <<":">>
    IN  ReadFlowRecords(d, SortKeys(ScanKeys(d, start_key, prefix, end_key)))

get_all_protocol_stats_in_timerange(d, start_ts, end_ts) ==
    LET prefix    == PROTOCOL_TAG \o <<":">>
        start_key == Join(<<PROTOCOL_TAG, ZeroPad10(start_ts)>>) \o <<":">>
        end_key   == Join(<<PROTOCOL_TAG, ZeroPad10(end_ts)>>) \o <<":">>
    IN  ReadProtocolRecords(d, SortKeys(ScanKeys(d, start_key, prefix, end_key)))

get_all_port_stats_in_timerange(d, start_ts, end_ts) ==
    LET prefix    == PORT_STATS_TAG \o <<":">>
        start_key == Join(<<PORT_STATS_TAG, ZeroPad10(start_ts)>>) \o <<":">>
        end_key   == Join(<<PORT_STATS_TAG, ZeroPad10(end_ts)>>) \o <<":">>
    IN  ReadPortRecords(d, SortKeys(ScanKeys(d, start_key, prefix, end_key)))

(* chrono::Duration::minutes(1), in seconds *)
LATEST_WINDOW_SECS == 60

(* The range get_latest_snapshot scans for at the clock reading now_ts:     *)
(* start = now - 1 min, end = now                                          *)
LatestRange(now_ts) == [start_ts |-> now_ts - LATEST_WINDOW_SECS, end_ts |-> now_ts]

----------------------------------------------------------------------------
(* Retention (storage.rs).  One pass over all keys (IteratorMode::Start):  *)
(* a key is put on the delete batch when it starts with "flow:",           *)
(* "protocol:" or "port_stats:" and is <= that family's end key; the batch *)
(* is written when it is not empty.                                        *)

(* Mutation: the families' keys are put on the batch whatever their timestamp *)
DoomedWholeFamilies(d, before_ts) ==
    {k \in DOMAIN d :
        \/ starts_with(k, FLOW_TAG \o <<":">>)
        \/ starts_with(k, PROTOCOL_TAG \o <<":">>)
        \/ starts_with(k, PORT_STATS_TAG \o <<":">>)}

Doomed(d, before_ts) ==
    LET end_key          == Join(<<FLOW_TAG, ZeroPad10(before_ts)>>) \o <<":">>
        protocol_end_key == Join(<<PROTOCOL_TAG, ZeroPad10(before_ts)>>) \o <<":">>
        port_end_key     == Join(<<PORT_STATS_TAG, ZeroPad10(before_ts)>>) \o <<":">>
    IN  {k \in DOMAIN d :
            IF starts_with(k, FLOW_TAG \o <<":">>) /\ StrLessEq(k, end_key) THEN TRUE
            ELSE IF starts_with(k, PROTOCOL_TAG \o <<":">>)
                    /\ StrLessEq(k, protocol_end_key) THEN TRUE
            ELSE starts_with(k, PORT_STATS_TAG \o <<":">>) /\ StrLessEq(k, port_end_key)}

(* The delete batch; the deletes of one batch commute, so the order of    *)
(* the pass is not kept.                                                   *)
RECURSIVE DeleteBatch(_)
DeleteBatch(doomed) ==
    IF doomed = {} THEN << >>
    ELSE LET key == CHOOSE k \in doomed : TRUE
         IN  <<Delete(key)>> \o DeleteBatch(doomed \ {key})

(* What can go wrong in a cleanup_old_data call: nothing, an item of the   *)
(* iterator (item?), or DB::write                                          *)
CleanupFailures == {"none", "iterate", "write"}

cleanup_old_data_CountScanned(d, before, fail) ==
    LET doomed        == Doomed(d, before)
        deleted_count == Cardinality(DOMAIN d)
    IN  IF fail = "iterate" \/ (deleted_count > 0 /\ fail = "write")
        THEN [db |-> d, ret |-> [ok |-> FALSE]]
        ELSE [db  |-> db_write(d, DeleteBatch(doomed)),
              ret |-> [ok |-> TRUE, deleted_count |-> deleted_count]]

(* An item that is an Err ends the pass and the call before anything is    *)
(* written; the batch is written only when it holds a delete               *)
cleanup_old_data(d, before, fail) ==
    LET doomed        == Doomed(d, before)
        deleted_count == Cardinality(doomed)
    IN  IF fail = "iterate" \/ (deleted_count > 0 /\ fail = "write")
        THEN [db |-> d, ret |-> [ok |-> FALSE]]
        ELSE [db  |-> db_write(d, DeleteBatch(doomed)),
              ret |-> [ok |-> TRUE, deleted_count |-> deleted_count]]

----------------------------------------------------------------------------
(* SpecStore: the store under snapshots, retention and the clock.          *)

MaxStores == 2

(* The calls happen at no more seconds than there are calls; one second    *)
(* more gives a cutoff or a range end after all of them.                   *)
MaxTicks == MaxStores

(* 1.0.0.0, whose decimal form 16777216 is the beginning of 10.0.0.5's     *)
(* 167772165                                                               *)
IpC == 1 * 16777216

StoreIps == {IpC, IpA}

Times == StartTime .. StartTime + MaxTicks

(* The contents of the three maps collect_and_store_data hands over: the   *)
(* entries the classifier made for the first packet of each flow, with or  *)
(* without the protocol and port entries (whose maps may have been full).  *)
(* The two snapshots with entries share the flow 10.0.0.5:443, which the   *)
(* last one holds after a second packet.                                   *)
SnapshotOf(flow_keys, others) ==
    [flows     |-> [k \in flow_keys |->
                       FlowValue(None, k.protocol, k.direction, 100, 1)],
     protocols |-> [ip \in IF others THEN {k.ip : k \in flow_keys} ELSE {} |->
                       ProtocolValue(None, PROTOCOL_TCP, 100, 1)],
     ports     |-> [port \in IF others THEN {k.port : k \in flow_keys} ELSE {} |->
                       PortValue(None, port, PROTOCOL_TCP, 100, 1)]]

(* The snapshot after another packet of 100 bytes on flow k *)
OnePacketLater(snap, k) ==
    [snap EXCEPT !.flows[k] = FlowValue(@, k.protocol, k.direction, 100, 2)]

Snapshots ==
    {SnapshotOf({}, FALSE),
     SnapshotOf({FlowKeyOf(IpA, 443, PROTOCOL_TCP, DIRECTION_INBOUND),
                 FlowKeyOf(IpA, 51000, PROTOCOL_UDP, DIRECTION_OUTBOUND)}, TRUE),
     OnePacketLater(
         SnapshotOf({FlowKeyOf(IpC, 443, PROTOCOL_TCP, DIRECTION_INBOUND),
                     FlowKeyOf(IpA, 443, PROTOCOL_TCP, DIRECTION_INBOUND)}, FALSE),
         FlowKeyOf(IpA, 443, PROTOCOL_TCP, DIRECTION_INBOUND))}

storeFrame == <<kernelVars, listen_ips, previous_totals, last_snapshot_time, appVars>>

Tick ==
    /\ now < StartTime + MaxTicks - 1
    /\ now' = now + 1
    /\ UNCHANGED <<storeFrame, db, nstores, out>>

(* A whole store_traffic_snapshot call.  No other call runs beside it     *)
(* here, so its clock reading (storage.rs:68) and its write (131) are one  *)
(* step: a tick between the two leaves the same store as a tick after the  *)
(* write.  SpecLatest has the two steps.                                   *)
StoreSnapshot(snap, fail) ==
    /\ nstores < MaxStores
    /\ fail = "serialize" => DOMAIN snap.flows # {}
    /\ LET r == store_traffic_snapshot(db, snap.flows, snap.protocols, snap.ports,
                                       now, fail)
       IN  /\ db' = r.db
           /\ out' = [op |-> "store_traffic_snapshot", snap |-> snap, ts |-> now,
                      ret |-> r.ret, batch |-> r.batch]
    /\ nstores' = nstores + 1
    /\ UNCHANGED <<storeFrame, now>>

CleanupOldData(before, fail) ==
    /\ LET r == cleanup_old_data(db, before, fail)
       IN  /\ db' = r.db
           /\ out' = [op |-> "cleanup_old_data", before |-> before, ret |-> r.ret,
                      repeats |-> /\ out.op = "cleanup_old_data"
                                  /\ out.before = before
                                  /\ out.ret.ok
                                  /\ out.ret.deleted_count > 0]
    /\ UNCHANGED <<storeFrame, now, nstores>>

NextStore ==
    \/ Tick
    \/ \E snap \in Snapshots, fail \in Failures : StoreSnapshot(snap, fail)
    \/ \E before \in Times, fail \in CleanupFailures : CleanupOldData(before, fail)

InitStore ==
    /\ Init
    /\ TARGET_IP = {IpA}
    /\ flow_other = 0
    /\ proto_other = 0
    /\ port_other = 0

SpecStore == InitStore /\ [][NextStore]_vars

----------------------------------------------------------------------------
(* SpecQuery: the read-only queries.  A query is a function of the         *)
(* database and its arguments: a behaviour starts from a database that     *)
(* successful store_traffic_snapshot calls have built by the clock reading *)
(* now, and applies one query to it.                                       *)

RECURSIVE DbsAfter(_, _)
DbsAfter(n, latest) ==
    IF n = 0 THEN {<< >>}
    ELSE LET before == DbsAfter(n - 1, latest)
         IN  before \cup
             {store_traffic_snapshot(d, snap.flows, snap.protocols, snap.ports,
                                     ts, "none").db :
                 d \in before, snap \in Snapshots, ts \in StartTime..latest}

GetIpFlowsHistory(ip, start_ts, end_ts) ==
    /\ out = NoCall
    /\ out' = [op |-> "get_ip_flows_history", ip |-> ip, start_ts |-> start_ts,
               end_ts |-> end_ts,
               ret |-> get_ip_flows_history(db, ip, start_ts, end_ts)]
    /\ UNCHANGED <<storeFrame, db, now, nstores>>

GetProtocolStatsHistory(ip, start_ts, end_ts) ==
    /\ out = NoCall
    /\ out' = [op |-> "get_protocol_stats_history", ip |-> ip, start_ts |-> start_ts,
               end_ts |-> end_ts,
               ret |-> get_protocol_stats_history(db, ip, start_ts, end_ts)]
    /\ UNCHANGED <<storeFrame, db, now, nstores>>

NextQuery ==
    \/ \E ip \in StoreIps, start_ts \in Times, end_ts \in Times :
          GetIpFlowsHistory(ip, start_ts, end_ts)
    \/ \E ip \in StoreIps, start_ts \in Times, end_ts \in Times :
          GetProtocolStatsHistory(ip, start_ts, end_ts)

InitQuery ==
    /\ TARGET_IP = {IpA}
    /\ FLOW_STATS = << >>
    /\ IP_PROTOCOL_STATS = << >>
    /\ PORT_STATS = << >>
    /\ flow_other = 0
    /\ proto_other = 0
    /\ port_other = 0
    /\ ktime = 1
    /\ npkts = 0
    /\ last = NoRun
    /\ lanes = [l \in Lanes |-> IdleLane]
    /\ done = << >>
    /\ listen_ips = TARGET_IP
    /\ now \in Times
    /\ db \in DbsAfter(MaxStores, now)
    /\ nstores = MaxStores
    /\ previous_totals = << >>
    /\ last_snapshot_time = StartTime * MillisPerSec
    /\ out = NoCall
    /\ AppInit

SpecQuery == InitQuery /\ [][NextQuery]_vars

----------------------------------------------------------------------------
(* SpecLatest: get_latest_snapshot, a request of the web API, beside the   *)
(* store_traffic_snapshot calls of the main loop.  The store reads its     *)
(* clock (storage.rs:68) before it builds its batch and writes it (131);   *)
(* the query reads its clock (262) and makes three range scans, each with  *)
(* an iterator of its own (266, 267, 268).  A scan reads the database as   *)
(* it is when the scan is made, and the clock can tick and a batch can be  *)
(* written between any two of these steps.  The iterator of a scan can     *)
(* yield an error (item?, 291, 324, 357): the scan then returns Err, and   *)
(* so does the query at once (the ? at 266, 267, 268), without the scans   *)
(* that were still to be made and without a value.  collector is the store *)
(* call in progress and, once it has returned, its result; out is the      *)
(* query, out.seen the databases its scans have read and out.ret its       *)
(* result once it has returned.                                            *)

latestFrame == <<kernelVars, listen_ips, previous_totals, last_snapshot_time, taskVars>>

(* let timestamp = Utc::now(); let ts = timestamp.timestamp(); *)
StoreSnapshotBegin(snap) ==
    /\ collector.pc = "idle"
    /\ nstores < MaxStores
    /\ collector' = [pc |-> "write", ts |-> now, flows |-> snap.flows,
                     protocols |-> snap.protocols, ports |-> snap.ports]
    /\ nstores' = nstores + 1
    /\ UNCHANGED <<latestFrame, db, now, out>>

(* the records are serialized into the batch; self.db.write(batch)? *)
StoreSnapshotWrite(fail) ==
    /\ collector.pc = "write"
    /\ fail = "serialize" => DOMAIN collector.flows # {}
    /\ LET r == store_traffic_snapshot(db, collector.flows, collector.protocols,
                                       collector.ports, collector.ts, fail)
       IN  /\ db' = r.db
           /\ collector' = [pc |-> "idle", ts |-> collector.ts, ret |-> r.ret,
                            batch |-> r.batch]
    /\ UNCHANGED <<latestFrame, now, nstores, out>>

(* let now = Utc::now(); let start_time = now - chrono::Duration::minutes(1); *)
GetLatestSnapshot ==
    /\ out = NoCall
    /\ out' = [op |-> "get_latest_snapshot", pc |-> "flows", ts |-> now, seen |-> {},
               flows |-> << >>, protocols |-> << >>, ports |-> << >>,
               ret |-> "pending"]
    /\ UNCHANGED <<latestFrame, collector, db, now, nstores>>

InGetLatestSnapshot(at) == out.op = "get_latest_snapshot" /\ out.pc = at

(* What the iterator of a scan does: it yields every item, or an error *)
ScanFailures == {"none", "iterate"}

(* The query returns the error of the scan it is in: Err carries no lists *)
LatestFailed ==
    [op |-> "get_latest_snapshot", pc |-> "returned", ts |-> out.ts,
     seen |-> out.seen \cup {db}, ret |-> "Err"]

(* let flows = self.get_flows_in_timerange(start_time, now)?; *)
GetLatestFlows(fail) ==
    /\ InGetLatestSnapshot("flows")
    /\ LET range == LatestRange(out.ts)
       IN  out' = IF fail = "iterate" THEN LatestFailed
                  ELSE [out EXCEPT
                           !.pc = "protocols",
                           !.seen = @ \cup {db},
                           !.flows = get_flows_in_timerange(db, range.start_ts,
                                                            range.end_ts)]
    /\ UNCHANGED <<latestFrame, collector, db, now, nstores>>

(* let protocols = self.get_all_protocol_stats_in_timerange(start_time, now)?; *)
GetLatestProtocols(fail) ==
    /\ InGetLatestSnapshot("protocols")
    /\ LET range == LatestRange(out.ts)
       IN  out' = IF fail = "iterate" THEN LatestFailed
                  ELSE [out EXCEPT
                           !.pc = "ports",
                           !.seen = @ \cup {db},
                           !.protocols = get_all_protocol_stats_in_timerange(
                                             db, range.start_ts, range.end_ts)]
    /\ UNCHANGED <<latestFrame, collector, db, now, nstores>>

(* let ports = self.get_all_port_stats_in_timerange(start_time, now)?;     *)
(* Ok((flows, protocols, ports))                                           *)
GetLatestPorts(fail) ==
    /\ InGetLatestSnapshot("ports")
    /\ LET range == LatestRange(out.ts)
       IN  out' = IF fail = "iterate" THEN LatestFailed
                  ELSE [out EXCEPT
                           !.pc = "returned",
                           !.seen = @ \cup {db},
                           !.ports = get_all_port_stats_in_timerange(
                                         db, range.start_ts, range.end_ts),
                           !.ret = "Ok"]
    /\ UNCHANGED <<latestFrame, collector, db, now, nstores>>

NextLatest ==
    \/ Tick
    \/ \E snap \in Snapshots : StoreSnapshotBegin(snap)
    \/ \E fail \in Failures : StoreSnapshotWrite(fail)
    \/ GetLatestSnapshot
    \/ \E fail \in ScanFailures : GetLatestFlows(fail)
    \/ \E fail \in ScanFailures : GetLatestProtocols(fail)
    \/ \E fail \in ScanFailures : GetLatestPorts(fail)

SpecLatest == InitStore /\ [][NextLatest]_vars

----------------------------------------------------------------------------
(* C13 *)

(* The three scans of get_latest_snapshot made on one database *)
LatestOf(d, now_ts) ==
    LET range == LatestRange(now_ts)
    IN  [flows     |-> get_flows_in_timerange(d, range.start_ts, range.end_ts),
         protocols |-> get_all_protocol_stats_in_timerange(d, range.start_ts,
                                                           range.end_ts),
         ports     |-> get_all_port_stats_in_timerange(d, range.start_ts, range.end_ts)]

(* What a get_latest_snapshot call that has returned Ok returned *)
Returned == [flows |-> out.flows, protocols |-> out.protocols, ports |-> out.ports]

(* The step on which a store_traffic_snapshot call returns *)
StoreReturns == collector.pc = "write" /\ collector'.pc = "idle"

\* C13 as claimed: the writes of one store_traffic_snapshot call are one atomic
\* batch, so that a reader of the store sees none or all of a snapshot's keys:
\* what get_latest_snapshot returns is what its three scans find in one state of
\* the store, in which every snapshot is present whole or not at all.  (Fails:
\* the scans are made one after the other, and a batch written between two of
\* them is in the later scan and not in the earlier one.)
C13_AsClaimed ==
    (InGetLatestSnapshot("returned") /\ out.ret = "Ok") =>
        \E d \in out.seen : Returned = LatestOf(d, out.ts)

\* C13 (amended): the writes of one store_traffic_snapshot call are one atomic
\* batch: the call leaves the store with all of the snapshot's keys or exactly as
\* it was, and as it was whenever it returns an error; every single scan of the
\* store finds none or all of the keys the snapshot has in the scanned family,
\* each of the three parts get_latest_snapshot returns being that part of one
\* state of the store.  (The three parts need not be of the same state.)
C13_AllOrNothing ==
    /\ [][StoreReturns =>
            LET batch == collector'.batch
                all   == \A i \in DOMAIN batch :
                            /\ batch[i].key \in DOMAIN db'
                            /\ db'[batch[i].key] = batch[i].value
            IN  /\ all \/ db' = db
                /\ collector'.ret = "Err" => db' = db
                /\ collector'.ret = "Ok" => all
         ]_vars
    /\ []((InGetLatestSnapshot("returned") /\ out.ret = "Ok") =>
            /\ \E d \in out.seen : out.flows = LatestOf(d, out.ts).flows
            /\ \E d \in out.seen : out.protocols = LatestOf(d, out.ts).protocols
            /\ \E d \in out.seen : out.ports = LatestOf(d, out.ts).ports)

\* get_latest_snapshot has returned the protocol and port records of a snapshot
\* whose flow records are in the store and not in the returned value: the batch
\* was written after the flow scan; and a store call that failed has left the
\* store as it was
C13_Witness ==
    /\ InGetLatestSnapshot("returned")
    /\ out.ret = "Ok"
    /\ out.flows = << >>
    /\ out.protocols # << >>
    /\ out.ports # << >>
    /\ LatestOf(db, out.ts).flows # << >>
    /\ collector.pc = "idle"
    /\ nstores = MaxStores
    /\ collector.ret = "Err"
    /\ Len(collector.batch) > 1

----------------------------------------------------------------------------
(* What the claims about the store are stated with.                        *)

(* A step of SpecStore that is a store_traffic_snapshot call; out' is the  *)
(* call and its result.                                                    *)
Stored == nstores' = nstores + 1

StoredOk == Stored /\ out'.ret = "Ok"

(* A key cut at its ':' characters *)
Split(key) ==
    LET colons == {i \in 1..Len(key) : key[i] = ":"}
        n      == Cardinality(colons)
        Cut(j) == CHOOSE i \in colons : Cardinality({x \in colons : x < i}) = j - 1
    IN  [j \in 1..(n + 1) |->
            SubSeq(key, IF j = 1 THEN 1 ELSE Cut(j - 1) + 1,
                        IF j = n + 1 THEN Len(key) ELSE Cut(j) - 1)]

DigitOf(c) == CHOOSE d \in 0..9 : DigitChars[d + 1] = c

RECURSIVE ToNat(_)
ToNat(digits) ==
    IF Len(digits) = 0 THEN 0
    ELSE 10 * ToNat(SubSeq(digits, 1, Len(digits) - 1)) + DigitOf(digits[Len(digits)])

(* The families whose keys carry the dimension before the timestamp *)
IndexTags == {IP_FLOWS_TAG, PORT_FLOWS_TAG, IP_PROTOCOL_TAG}

(* Family, dimension prefix and embedded timestamp of a stored key *)
KeyParts(key) ==
    LET fields == Split(key)
    IN  IF fields[1] \in IndexTags
        THEN [family |-> fields[1], dimension |-> fields[2], ts |-> ToNat(fields[3])]
        ELSE [family |-> fields[1], dimension |-> << >>, ts |-> ToNat(fields[2])]

RECURSIVE Pow10(_)
Pow10(n) == IF n = 0 THEN 1 ELSE 10 * Pow10(n - 1)

(* {ts10}: the ten decimal digits of a Unix second below 10^10 *)
Ts10(ts) ==
    [i \in 1..TS_WIDTH |-> DigitChars[((ts \div Pow10(TS_WIDTH - i)) % 10) + 1]]

Colon == <<":">>

(* The keys the key formats name for one flow, protocol and port entry *)
FlowKeysAsClaimed(ts, k) ==
    <<FLOW_TAG \o Colon \o Ts10(ts) \o Colon \o Decimal(k.ip) \o Colon
        \o Decimal(k.port) \o Colon \o Decimal(k.protocol) \o Colon
        \o Decimal(k.direction),
      IP_FLOWS_TAG \o Colon \o Decimal(k.ip) \o Colon \o Ts10(ts) \o Colon
        \o Decimal(k.port) \o Colon \o Decimal(k.protocol) \o Colon
        \o Decimal(k.direction),
      PORT_FLOWS_TAG \o Colon \o Decimal(k.port) \o Colon \o Ts10(ts) \o Colon
        \o Decimal(k.ip) \o Colon \o Decimal(k.protocol) \o Colon
        \o Decimal(k.direction)>>

ProtocolKeysAsClaimed(ts, ip) ==
    <<PROTOCOL_TAG \o Colon \o Ts10(ts) \o Colon \o Decimal(ip),
      IP_PROTOCOL_TAG \o Colon \o Decimal(ip) \o Colon \o Ts10(ts)>>

PortKeyAsClaimed(ts, port) ==
    PORT_STATS_TAG \o Colon \o Ts10(ts) \o Colon \o Decimal(port)

KeysAsClaimed(snap, ts) ==
    UNION {{FlowKeysAsClaimed(ts, k)[i] : i \in 1..3} : k \in DOMAIN snap.flows}
    \cup UNION {{ProtocolKeysAsClaimed(ts, ip)[i] : i \in 1..2} :
                   ip \in DOMAIN snap.protocols}
    \cup {PortKeyAsClaimed(ts, port) : port \in DOMAIN snap.ports}

(* C12: store_traffic_snapshot of F flow, P protocol and Q port entries at *)
(* second ts writes exactly 3F + 2P + Q keys: per flow the flow:, ip_flows: *)
(* and port_flows: keys of the claimed formats, all three holding the same *)
(* serialized record; per protocol entry the protocol: and ip_protocol:    *)
(* keys holding the same record; per port entry the port_stats: key; and   *)
(* no other key of the store changes.                                      *)
C12_WritesExactlyTheKeys ==
    [][StoredOk =>
        LET snap     == out'.snap
            ts       == out'.ts
            batch    == out'.batch
            F        == Cardinality(DOMAIN snap.flows)
            P        == Cardinality(DOMAIN snap.protocols)
            Q        == Cardinality(DOMAIN snap.ports)
            expected == KeysAsClaimed(snap, ts)
        IN  /\ Len(batch) = 3 * F + 2 * P + Q
            /\ {batch[i].key : i \in DOMAIN batch} = expected
            /\ Cardinality(expected) = 3 * F + 2 * P + Q
            /\ DOMAIN db' = DOMAIN db \cup expected
            /\ \A key \in DOMAIN db \ expected : db'[key] = db[key]
            /\ \A k \in DOMAIN snap.flows :
                  LET keys == FlowKeysAsClaimed(ts, k)
                  IN  /\ db'[keys[1]] = serialize_FlowRecord(FlowRecord(ts, k, snap.flows[k]))
                      /\ db'[keys[2]] = db'[keys[1]]
                      /\ db'[keys[3]] = db'[keys[1]]
            /\ \A ip \in DOMAIN snap.protocols :
                  LET keys == ProtocolKeysAsClaimed(ts, ip)
                  IN  /\ db'[keys[1]] = serialize_ProtocolRecord(
                                            ProtocolRecord(ts, ip, snap.protocols[ip]))
                      /\ db'[keys[2]] = db'[keys[1]]
            /\ \A port \in DOMAIN snap.ports :
                  db'[PortKeyAsClaimed(ts, port)]
                      = serialize_PortRecord(PortRecord(ts, port, snap.ports[port]))
    ]_vars

(* A successful store of two flows, one protocol entry and two port entries *)
C12_Witness ==
    /\ out.op = "store_traffic_snapshot"
    /\ out.ret = "Ok"
    /\ Cardinality(DOMAIN out.snap.flows) = 2
    /\ Cardinality(DOMAIN out.snap.protocols) = 1
    /\ Cardinality(DOMAIN out.snap.ports) = 2
    /\ Cardinality(DOMAIN db) >= 10

(* C14: of two stored keys of the same family and the same dimension       *)
(* prefix with timestamps t1 < t2, the key with t1 is the smaller one,     *)
(* whatever fields follow.  Checked on every store the snapshots build,    *)
(* before the query of SpecQuery runs.                                     *)
C14_KeyOrderIsTimeOrder ==
    out = NoCall =>
    LET parts == [key \in DOMAIN db |-> KeyParts(key)]
    IN  \A k1, k2 \in DOMAIN db :
            (/\ parts[k1].family = parts[k2].family
             /\ parts[k1].dimension = parts[k2].dimension
             /\ parts[k1].ts < parts[k2].ts)
            => StrLess(k1, k2)

(* Keys of one family and dimension stored at seconds 9 and 10, the later  *)
(* one with the smaller trailing fields                                    *)
C14_Witness ==
    out = NoCall /\ \E k1, k2 \in DOMAIN db :
        /\ KeyParts(k1).family = PORT_FLOWS_TAG
        /\ KeyParts(k2).family = PORT_FLOWS_TAG
        /\ KeyParts(k1).dimension = KeyParts(k2).dimension
        /\ KeyParts(k1).ts = StartTime
        /\ KeyParts(k2).ts = StartTime + 1
        /\ StrLess(Split(k2)[4], Split(k1)[4])

(* The records the store holds under the keys of one family *)
StoredValues(d, tag) ==
    {d[key] : key \in {k \in DOMAIN d : starts_with(k, tag \o Colon)}}

StoredFlowRecords(d, tag) ==
    {deserialize_FlowRecord(value).record :
        value \in {v \in StoredValues(d, tag) : deserialize_FlowRecord(v).ok}}

StoredProtocolRecords(d, tag) ==
    {deserialize_ProtocolRecord(value).record :
        value \in {v \in StoredValues(d, tag) : deserialize_ProtocolRecord(v).ok}}

SeqRange(seq) == {seq[i] : i \in DOMAIN seq}

(* C15: get_ip_flows_history(ip, start, end) returns exactly the stored    *)
(* flow records whose flow_key.ip is ip and whose timestamp t satisfies    *)
(* start <= t < end, each once: none of another IP, none before start,     *)
(* none at or after end, and every record inside the range.                *)
C15_IpFlowsHalfOpenRange ==
    out.op = "get_ip_flows_history" =>
        LET stored   == StoredFlowRecords(db, IP_FLOWS_TAG)
            expected == {r \in stored : /\ r.flow_key.ip = out.ip
                                        /\ out.start_ts <= r.timestamp
                                        /\ r.timestamp < out.end_ts}
        IN  /\ SeqRange(out.ret) = expected
            /\ Len(out.ret) = Cardinality(expected)

(* A query for 1.0.0.0 that returns a record, over a store that also holds *)
(* a record of 1.0.0.0 at the end of the range and a record of 10.0.0.5    *)
(* inside it                                                               *)
C15_Witness ==
    /\ out.op = "get_ip_flows_history"
    /\ out.ip = IpC
    /\ Len(out.ret) > 0
    /\ \E r \in StoredFlowRecords(db, IP_FLOWS_TAG) :
          r.flow_key.ip = IpC /\ r.timestamp = out.end_ts
    /\ \E r \in StoredFlowRecords(db, IP_FLOWS_TAG) :
          r.flow_key.ip = IpA /\ out.start_ts <= r.timestamp /\ r.timestamp < out.end_ts

(* C16: get_protocol_stats_history(ip, start, end) returns exactly the     *)
(* protocol records of ip with start <= t < end, and so none whose         *)
(* timestamp equals end.                                                   *)
C16_ProtocolHalfOpenRange ==
    out.op = "get_protocol_stats_history" =>
        LET stored   == StoredProtocolRecords(db, IP_PROTOCOL_TAG)
            expected == {r \in stored : /\ r.ip = out.ip
                                        /\ out.start_ts <= r.timestamp
                                        /\ r.timestamp < out.end_ts}
        IN  /\ SeqRange(out.ret) = expected
            /\ Len(out.ret) = Cardinality(expected)

(* C17: after cleanup_old_data(cutoff) returns Ok the store holds no key,  *)
(* of any of the six families, whose embedded timestamp is <= cutoff.      *)
C17_NothingOldLeft ==
    (out.op = "cleanup_old_data" /\ out.ret.ok) =>
        \A key \in DOMAIN db : KeyParts(key).ts > out.before

(* A step of SpecStore that is a cleanup_old_data call *)
Cleaned == now' = now /\ nstores' = nstores

(* The second of two successive calls with one cutoff, the first of which  *)
(* returned Ok                                                             *)
SecondCleanup ==
    /\ Cleaned
    /\ out.op = "cleanup_old_data"
    /\ out.before = out'.before
    /\ out.ret.ok

\* C18 as claimed: cleanup_old_data returns the number of keys it deleted, and
\* called again with the same cutoff, with no store in between, the second call
\* returns 0 and leaves the store unchanged.  (Fails: the second call reads the
\* store again, and when an item of its iterator is an error it returns that
\* error and no count.)
C18_AsClaimed ==
    [][(Cleaned => (out'.ret.ok =>
                        out'.ret.deleted_count = Cardinality(DOMAIN db \ DOMAIN db')))
       /\ (SecondCleanup => /\ out'.ret.ok
                            /\ out'.ret.deleted_count = 0
                            /\ db' = db)
    ]_vars

\* C18 (amended): a cleanup_old_data call that returns Ok returns the number of
\* keys it deleted and touches no other key, and a call that returns an error
\* leaves the store as it was; called again with the same cutoff after a call
\* that returned Ok, with no store in between, it deletes nothing: the store is
\* unchanged, and the call returns 0 unless reading the store fails, in which
\* case it returns the error.
C18_CountAndIdempotence ==
    [][(Cleaned =>
           /\ out'.ret.ok =>
                 /\ DOMAIN db' \subseteq DOMAIN db
                 /\ out'.ret.deleted_count = Cardinality(DOMAIN db \ DOMAIN db')
                 /\ \A key \in DOMAIN db' : db'[key] = db[key]
           /\ ~out'.ret.ok => db' = db)
       /\ (SecondCleanup =>
              /\ db' = db
              /\ out'.ret.ok => out'.ret.deleted_count = 0
              /\ ~out'.ret.ok => \A fail \in CleanupFailures \ {"iterate"} :
                                     cleanup_old_data(db, out'.before, fail).ret.ok)
    ]_vars

\* the second of two calls with one cutoff, the first of which deleted keys,
\* returned 0 over a store that still holds keys
C18_Witness ==
    /\ out.op = "cleanup_old_data"
    /\ out.repeats
    /\ out.ret.ok
    /\ out.ret.deleted_count = 0
    /\ db # << >>

(* What reading a flow entry back must give: the entry's key and stats *)
ReadsBack(records, k, stats) ==
    \E i \in DOMAIN records :
        /\ records[i].flow_key.ip = k.ip
        /\ records[i].flow_key.port = k.port
        /\ records[i].flow_key.protocol = k.protocol
        /\ records[i].flow_key.direction = k.direction
        /\ records[i].stats.inbound_packets = stats.inbound_packets
        /\ records[i].stats.inbound_bytes = stats.inbound_bytes
        /\ records[i].stats.outbound_packets = stats.outbound_packets
        /\ records[i].stats.outbound_bytes = stats.outbound_bytes
        /\ records[i].stats.protocol = stats.protocol
        /\ records[i].stats.last_seen = stats.last_seen
        /\ records[i].stats.connection_count = stats.connection_count

(* The key families a flow record is written under *)
FlowFamilies == {FLOW_TAG, IP_FLOWS_TAG, PORT_FLOWS_TAG}

(* The flow records the store returns for a key family, the key of an      *)
(* entry and one second.  get_flows_in_timerange scans flow: and           *)
(* get_ip_flows_history scans ip_flows:{ip}:.  port_flows: is written as   *)
(* the index for queries by port (storage.rs:93-99), and no function of    *)
(* TrafficStorage scans it: nothing is returned through it.                *)
FlowsReadThrough(d, family, k, ts) ==
    IF family = FLOW_TAG THEN get_flows_in_timerange(d, ts, ts + 1)
    ELSE IF family = IP_FLOWS_TAG THEN get_ip_flows_history(d, k.ip, ts, ts + 1)
    ELSE << >>

\* C19: after store_traffic_snapshot, every flow entry of the snapshot is read
\* back with its flow_key and stats through each of the three flow key
\* families: flow: by time range, ip_flows: by IP and time range, port_flows:
\* by port and time range.  The program does not keep it: the record is written
\* under its port_flows: key and the store has no read by port and time range
\* that would return it.
C19_RoundTrip ==
    [][StoredOk =>
        LET ts == out'.ts
        IN  \A k \in DOMAIN out'.snap.flows, family \in FlowFamilies :
               ReadsBack(FlowsReadThrough(db', family, k, ts), k, out'.snap.flows[k])
    ]_vars

----------------------------------------------------------------------------
(* Analytics (analytics.rs): the rates of calculate_realtime_metrics.      *)
(*                                                                         *)
(* A u64 is kept as its distance from 0 or, when it came from the cast of  *)
(* a negative i64, as its distance from 2^64: [wrapped |-> TRUE, n |-> 3]  *)
(* is 2^64 - 3.  The totals of the model stay far below 2^63, so a         *)
(* wrapped value is greater than every total.                              *)

total_packets(stats) == stats.inbound_packets + stats.outbound_packets

total_bytes(stats) == stats.inbound_bytes + stats.outbound_bytes

(* Duration::num_seconds: the whole seconds, rounded towards zero *)
num_seconds(millis) ==
    IF millis >= 0 THEN millis \div MillisPerSec
    ELSE -((-millis) \div MillisPerSec)

(* `as u64` of an i64 *)
as_u64(n) ==
    IF n >= 0 THEN [wrapped |-> FALSE, n |-> n] ELSE [wrapped |-> TRUE, n |-> -n]

time_diff_secs_of(last_time, current_time) ==
    LET time_diff_secs == as_u64(num_seconds(current_time - last_time))
    IN  IF time_diff_secs = as_u64(0) THEN as_u64(1) ELSE time_diff_secs

(* u64 division of a total of the model by a divisor that is not 0 *)
u64_div(n, d) == IF d.wrapped THEN 0 ELSE n \div d.n

(* bandwidth_bps and packet_rate_pps *)
rate_per_sec(total, previous, time_diff_secs) ==
    IF total > previous THEN u64_div(total - previous, time_diff_secs) ELSE 0

(* The sum a loop over the flows accumulates *)
RECURSIVE SumOver(_, _)
SumOver(amounts, keys) ==
    IF keys = {} THEN 0
    ELSE LET k == CHOOSE x \in keys : TRUE
         IN  amounts[k] + SumOver(amounts, keys \ {k})

TotalBytes(flows) ==
    SumOver([k \in DOMAIN flows |-> total_bytes(flows[k])], DOMAIN flows)

TotalPackets(flows) ==
    SumOver([k \in DOMAIN flows |-> total_packets(flows[k])], DOMAIN flows)

Connections(flows, protocol) ==
    SumOver([k \in DOMAIN flows |-> flows[k].connection_count],
            {k \in DOMAIN flows : k.protocol = protocol})

PreviousTotal(previous, name) ==
    IF name \in DOMAIN previous THEN previous[name] ELSE 0

(* calculate_realtime_metrics: the metrics and previous_totals afterwards *)
calculate_realtime_metrics(flows, previous, time_diff_secs, current_time) ==
    LET bytes   == TotalBytes(flows)
        packets == TotalPackets(flows)
    IN  [metrics |->
            [total_bandwidth_bps   |->
                 rate_per_sec(bytes, PreviousTotal(previous, "total_bytes"),
                              time_diff_secs),
             total_packet_rate_pps |->
                 rate_per_sec(packets, PreviousTotal(previous, "total_packets"),
                              time_diff_secs),
             active_flows    |-> Cardinality(DOMAIN flows),
             active_ips      |-> Cardinality({k.ip : k \in DOMAIN flows}),
             tcp_connections |-> Connections(flows, PROTOCOL_TCP),
             udp_connections |-> Connections(flows, PROTOCOL_UDP),
             last_updated    |-> current_time],
         previous_totals |->
            [name \in DOMAIN previous \cup {"total_bytes", "total_packets"} |->
                IF name = "total_bytes" THEN bytes
                ELSE IF name = "total_packets" THEN packets
                ELSE previous[name]]]

(* analyze_ebpf_data at the clock reading current_time: the real-time      *)
(* metrics of the dashboard data and the analyzer's fields afterwards      *)
analyze_ebpf_data(flows, previous, last_time, current_time) ==
    LET r == calculate_realtime_metrics(flows, previous,
                 time_diff_secs_of(last_time, current_time), current_time)
    IN  [realtime_metrics   |-> r.metrics,
         previous_totals    |-> r.previous_totals,
         last_snapshot_time |-> current_time]

----------------------------------------------------------------------------
(* SpecRate: the analyzer under successive analyze_ebpf_data calls.        *)

(* Utc::now() is the wall clock: a reading may lie before an earlier one.  *)
ClockOffsets == {0, 400, 1000, 5000, 5400}

ClockReadings == {StartTime * MillisPerSec + offset : offset \in ClockOffsets}

StatsOf(inbound_packets, inbound_bytes, outbound_packets, outbound_bytes, protocol) ==
    [inbound_packets |-> inbound_packets, inbound_bytes |-> inbound_bytes,
     outbound_packets |-> outbound_packets, outbound_bytes |-> outbound_bytes,
     protocol |-> protocol, last_seen |-> 1, connection_count |-> 1]

TcpFlow == FlowKeyOf(IpA, 443, PROTOCOL_TCP, DIRECTION_INBOUND)

UdpFlow == FlowKeyOf(IpC, 53, PROTOCOL_UDP, DIRECTION_OUTBOUND)

(* Flow maps with 0, 1000, 1500 and 700 bytes and 0, 10, 16 and 7 packets *)
RateFlows ==
    {<< >>,
     (TcpFlow :> StatsOf(6, 600, 4, 400, PROTOCOL_TCP)),
     (TcpFlow :> StatsOf(6, 600, 4, 400, PROTOCOL_TCP))
        @@ (UdpFlow :> StatsOf(0, 0, 6, 500, PROTOCOL_UDP)),
     (TcpFlow :> StatsOf(4, 400, 3, 300, PROTOCOL_TCP))}

AnalyzeEbpfData(flows, current_time) ==
    /\ LET r == analyze_ebpf_data(flows, previous_totals, last_snapshot_time,
                                  current_time)
       IN  /\ previous_totals' = r.previous_totals
           /\ last_snapshot_time' = r.last_snapshot_time
           /\ out' = [op |-> "analyze_ebpf_data", flows |-> flows,
                      current_time |-> current_time,
                      last_time |-> last_snapshot_time,
                      previous |-> previous_totals,
                      realtime_metrics |-> r.realtime_metrics]
    /\ UNCHANGED <<kernelVars, listen_ips, db, now, nstores, appVars>>

NextRate ==
    \E flows \in RateFlows, current_time \in ClockReadings :
        AnalyzeEbpfData(flows, current_time)

SpecRate == InitStore /\ [][NextRate]_vars

(* The elapsed whole seconds and the totals the claim speaks of *)
Elapsed(call) == num_seconds(call.current_time - call.last_time)

Max(a, b) == IF a >= b THEN a ELSE b

RateAsClaimed(current, previous, elapsed) ==
    IF current > previous THEN (current - previous) \div Max(elapsed, 1) ELSE 0

(* C20: bandwidth is (current total bytes - previous total bytes) div      *)
(* max(elapsed_seconds, 1) when current > previous and 0 otherwise,        *)
(* previous being 0 before the first call; the packet rate follows the     *)
(* same rule; no rate is negative.                                         *)
C20_RatesAsClaimed ==
    out.op = "analyze_ebpf_data" =>
        LET bytes   == TotalBytes(out.flows)
            packets == TotalPackets(out.flows)
        IN  /\ out.realtime_metrics.total_bandwidth_bps
                  = RateAsClaimed(bytes, PreviousTotal(out.previous, "total_bytes"),
                                  Elapsed(out))
            /\ out.realtime_metrics.total_packet_rate_pps
                  = RateAsClaimed(packets, PreviousTotal(out.previous, "total_packets"),
                                  Elapsed(out))
            /\ out.realtime_metrics.total_bandwidth_bps >= 0
            /\ out.realtime_metrics.total_packet_rate_pps >= 0

----------------------------------------------------------------------------
(* C30 *)

ProtoFlows(m, ip, pr) ==
    IF ip \notin DOMAIN m THEN 0
    ELSE IF pr = PROTOCOL_TCP THEN m[ip].tcp_flows ELSE m[ip].udp_flows

OtherProtocol(pr) == IF pr = PROTOCOL_TCP THEN PROTOCOL_UDP ELSE PROTOCOL_TCP

(* The entry of ip got, times over, one flow, one packet and tot_len bytes  *)
(* on the packet's protocol, and nothing on the other protocol             *)
ProtocolCountedAt(pkt, ip, times) ==
        LET other == OtherProtocol(pkt.proto)
        IN  /\ ProtoFlows(IP_PROTOCOL_STATS', ip, pkt.proto)
                  = ProtoFlows(Proto0, ip, pkt.proto) + times
            /\ ProtoPackets(IP_PROTOCOL_STATS', ip, pkt.proto)
                  = ProtoPackets(Proto0, ip, pkt.proto) + times
            /\ ProtoBytes(IP_PROTOCOL_STATS', ip, pkt.proto)
                  = ProtoBytes(Proto0, ip, pkt.proto) + times * pkt.tot_len
            /\ ProtoFlows(IP_PROTOCOL_STATS', ip, other)
                  = ProtoFlows(Proto0, ip, other)
            /\ ProtoPackets(IP_PROTOCOL_STATS', ip, other)
                  = ProtoPackets(Proto0, ip, other)
            /\ ProtoBytes(IP_PROTOCOL_STATS', ip, other)
                  = ProtoBytes(Proto0, ip, other)

FlowsEqualPackets ==
    \A ip \in DOMAIN IP_PROTOCOL_STATS :
        /\ IP_PROTOCOL_STATS[ip].tcp_flows = IP_PROTOCOL_STATS[ip].tcp_packets
        /\ IP_PROTOCOL_STATS[ip].udp_flows = IP_PROTOCOL_STATS[ip].udp_packets

\* C30 as claimed: every run on a complete packet adds, for a watched address
\* of the packet, the packet's bytes, 1 packet and exactly 1 flow to the
\* sub-counters of the packet's protocol of that address's protocol entry and
\* nothing to the other protocol's; tcp_flows = tcp_packets and udp_flows =
\* udp_packets afterwards; stated for the runs that no other run overlaps.
\* (Fails when the address has no entry and IP_PROTOCOL_STATS is full, and
\* when the address is both the source and the destination of the packet:
\* update_protocol_stats is then called twice for it.)
C30_AsClaimed ==
    [][(RanAlone /\ Complete(last'.pkt)) =>
          /\ \A ip \in IPs :
                ProtocolCountedAt(last'.pkt, ip,
                                  IF SidesOfIp(last'.pkt, ip) > 0 THEN 1 ELSE 0)
          /\ FlowsEqualPackets']_vars

\* C30 (amended): a run that no other run overlaps, on a complete packet, adds,
\* once per watched side of the packet (so twice for an address that is both
\* its source and its destination), the packet's bytes, 1 packet and 1 flow
\* (per packet, not per distinct flow) to the sub-counters of the packet's
\* protocol of that side's protocol entry and nothing to the other protocol's,
\* for every address that had an entry, and for every address when
\* IP_PROTOCOL_STATS has room for the new ones; an address whose insert the
\* full map rejects stays without an entry; in every state reached
\* sequentially tcp_flows = tcp_packets and udp_flows = udp_packets.
C30_FlowCounterPerPacket ==
    [][(RanAlone /\ Complete(last'.pkt)) =>
          /\ \A ip \in IPs :
                \/ ProtocolCountedAt(last'.pkt, ip, SidesOfIp(last'.pkt, ip))
                \/ /\ ip \notin DOMAIN Proto0
                   /\ ip \notin DOMAIN IP_PROTOCOL_STATS'
                   /\ ~HasRoom(Proto0, proto_other, PROTO_MAX_ENTRIES,
                               {k.ip : k \in WatchedKeys(last'.pkt)})
          /\ FlowsEqualPackets']_vars

\* two TCP packets of one flow, each watched on one side and classified by a
\* run of its own, were counted as two flows: the address has one flow entry,
\* which holds the two packets, and tcp_flows = 2
C30_Witness ==
    /\ Quiescent
    /\ npkts = 2
    /\ last.alone
    /\ SidesOfIp(last.pkt, last.pkt.src) = 1
    /\ \E ip \in DOMAIN IP_PROTOCOL_STATS :
          /\ IP_PROTOCOL_STATS[ip].tcp_flows = 2
          /\ IP_PROTOCOL_STATS[ip].tcp_packets = 2
          /\ \E k \in DOMAIN FLOW_STATS :
                /\ {x \in DOMAIN FLOW_STATS : x.ip = ip} = {k}
                /\ k.protocol = PROTOCOL_TCP
                /\ total_packets(FLOW_STATS[k]) = 2

----------------------------------------------------------------------------
(* SpecScan: the range scans over a store that holds values the decoder    *)
(* rejects, with an iterator that may fail (storage.rs).                   *)
(*                                                                         *)
(* TrafficStorage::new opens whatever the directory holds; a value that    *)
(* bincode::deserialize rejects is one that is shorter than its record.    *)
(* The iterator yields Err at its fail_at-th item (0: never); every loop   *)
(* reads the item (item?) before it tests the key, so it pulls the keys in *)
(* range and one item more.                                                *)

Truncated(value) == SubSeq(value, 1, Len(value) - 1)

Damaged(d, keys) ==
    [k \in DOMAIN d |-> IF k \in keys THEN Truncated(d[k]) ELSE d[k]]

IterFailed(keys, fail_at) == fail_at \in 1..(Len(keys) + 1)

get_ip_flows_history_result(d, ip, start_ts, end_ts, fail_at) ==
    LET prefix    == Join(<<IP_FLOWS_TAG, Decimal(ip)>>) \o <<":">>
        start_key == Join(<<IP_FLOWS_TAG, Decimal(ip), ZeroPad10(start_ts)>>) \o <<":">>
        end_key   == Join(<<IP_FLOWS_TAG, Decimal(ip), ZeroPad10(end_ts)>>) \o <<":">>
        keys      == SortKeys(ScanKeys(d, start_key, prefix, end_key))
    IN  IF IterFailed(keys, fail_at) THEN [ok |-> FALSE]
        ELSE [ok |-> TRUE, results |-> ReadFlowRecords(d, keys)]

get_protocol_stats_history_result(d, ip, start_ts, end_ts, fail_at) ==
    LET prefix    == Join(<<IP_PROTOCOL_TAG, Decimal(ip)>>) \o <<":">>
        start_key == Join(<<IP_PROTOCOL_TAG, Decimal(ip), ZeroPad10(start_ts)>>)
        end_key   == Join(<<IP_PROTOCOL_TAG, Decimal(ip), ZeroPad10(end_ts)>>)
        keys      == SortKeys(ScanKeys(d, start_key, prefix, end_key))
    IN  IF IterFailed(keys, fail_at) THEN [ok |-> FALSE]
        ELSE [ok |-> TRUE, results |-> ReadProtocolRecords(d, keys)]

(* sort_by(|a, b| b.weight.cmp(&a.weight)) on a sequence of records with a *)
(* weight: a stable sort, so equal weights keep their order                *)
RECURSIVE StableSortDesc(_)
StableSortDesc(s) ==
    IF Len(s) = 0 THEN << >>
    ELSE LET i == CHOOSE x \in 1..Len(s) :
                      /\ \A y \in 1..Len(s) : s[y].weight <= s[x].weight
                      /\ \A y \in 1..(x - 1) : s[y].weight < s[x].weight
         IN  <<s[i]>> \o StableSortDesc(SubSeq(s, 1, i - 1) \o SubSeq(s, i + 1, Len(s)))

(* truncate(limit) and take(limit) *)
Take(s, limit) == SubSeq(s, 1, IF Len(s) < limit THEN Len(s) ELSE limit)

(* The orders a HashMap with the keys of set may iterate in *)
Orders(set) ==
    {order \in [1..Cardinality(set) -> set] :
        \A i, j \in 1..Cardinality(set) : order[i] = order[j] => i = j}

(* port_aggregates after the loop over records: per port the stats that    *)
(* SerializablePortStats::new made from the first record, plus the sums    *)
RECURSIVE PortAggregates(_, _)
PortAggregates(records, agg) ==
    IF Len(records) = 0 THEN agg
    ELSE LET record == Head(records)
             entry  == IF record.port \in DOMAIN agg THEN agg[record.port]
                       ELSE [port |-> record.port, protocol |-> record.stats.protocol,
                             total_bytes |-> 0, total_packets |-> 0,
                             active_connections |-> 0, last_active |-> 0]
             summed == [entry EXCEPT
                          !.total_bytes = @ + record.stats.total_bytes,
                          !.total_packets = @ + record.stats.total_packets,
                          !.active_connections = @ + record.stats.active_connections,
                          !.last_active = IF @ < record.stats.last_active
                                          THEN record.stats.last_active ELSE @]
         IN  PortAggregates(Tail(records),
                            [q \in DOMAIN agg \cup {record.port} |->
                                IF q = record.port THEN summed ELSE agg[q]])

(* order: the iteration order of port_aggregates, a HashMap *)
get_top_ports(d, start_ts, end_ts, limit, order, fail_at) ==
    LET start_key == Join(<<PORT_STATS_TAG, ZeroPad10(start_ts)>>) \o <<":">>
        end_key   == Join(<<PORT_STATS_TAG, ZeroPad10(end_ts)>>) \o <<":">>
        keys      == SortKeys(ScanKeys(d, start_key, PORT_STATS_TAG \o <<":">>, end_key))
        agg       == PortAggregates(ReadPortRecords(d, keys), << >>)
        ports     == SelectSeq(order, LAMBDA port : port \in DOMAIN agg)
        unsorted  == [i \in 1..Len(ports) |->
                        [weight |-> agg[ports[i]].total_bytes,
                         item   |-> [timestamp |-> end_ts, port |-> ports[i],
                                     stats |-> agg[ports[i]]]]]
        sorted    == StableSortDesc(unsorted)
    IN  IF IterFailed(keys, fail_at) THEN [ok |-> FALSE]
        ELSE [ok |-> TRUE,
              results |-> Take([i \in 1..Len(sorted) |-> sorted[i].item], limit)]

(* The store after a snapshot of two flows of 10.0.0.5, with its protocol  *)
(* and port entries, was stored at each of the first n seconds             *)
ScanSnapshot ==
    SnapshotOf({FlowKeyOf(IpA, 443, PROTOCOL_TCP, DIRECTION_INBOUND),
                FlowKeyOf(IpA, 51000, PROTOCOL_UDP, DIRECTION_OUTBOUND)}, TRUE)

RECURSIVE FilledDb(_)
FilledDb(n) ==
    IF n = 0 THEN << >>
    ELSE store_traffic_snapshot(FilledDb(n - 1), ScanSnapshot.flows,
                                ScanSnapshot.protocols, ScanSnapshot.ports,
                                StartTime + n - 1, "none").db

(* One value of the store, or none, is undecodable *)
ScanDbs ==
    {FilledDb(MaxStores)}
    \cup {Damaged(FilledDb(MaxStores), {k}) : k \in DOMAIN FilledDb(MaxStores)}

FailAts == {0, 1, 2}

Limits == {1, 10}

ScanPorts == {443, 51000}

GetIpFlowsHistoryResult(ip, start_ts, end_ts, fail_at) ==
    /\ out = NoCall
    /\ out' = [op |-> "get_ip_flows_history", ip |-> ip, start_ts |-> start_ts,
               end_ts |-> end_ts, fail_at |-> fail_at,
               ret |-> get_ip_flows_history_result(db, ip, start_ts, end_ts, fail_at)]
    /\ UNCHANGED <<storeFrame, db, now, nstores>>

GetProtocolStatsHistoryResult(ip, start_ts, end_ts, fail_at) ==
    /\ out = NoCall
    /\ out' = [op |-> "get_protocol_stats_history", ip |-> ip, start_ts |-> start_ts,
               end_ts |-> end_ts, fail_at |-> fail_at,
               ret |-> get_protocol_stats_history_result(db, ip, start_ts, end_ts,
                                                         fail_at)]
    /\ UNCHANGED <<storeFrame, db, now, nstores>>

GetTopPorts(start_ts, end_ts, limit, order, fail_at) ==
    /\ out = NoCall
    /\ out' = [op |-> "get_top_ports", start_ts |-> start_ts, end_ts |-> end_ts,
               limit |-> limit, order |-> order, fail_at |-> fail_at,
               ret |-> get_top_ports(db, start_ts, end_ts, limit, order, fail_at)]
    /\ UNCHANGED <<storeFrame, db, now, nstores>>

NextScan ==
    \/ \E ip \in StoreIps, start_ts \in Times, end_ts \in Times, fail_at \in FailAts :
          GetIpFlowsHistoryResult(ip, start_ts, end_ts, fail_at)
    \/ \E ip \in StoreIps, start_ts \in Times, end_ts \in Times, fail_at \in FailAts :
          GetProtocolStatsHistoryResult(ip, start_ts, end_ts, fail_at)
    \/ \E start_ts \in Times, end_ts \in Times, limit \in Limits,
          order \in Orders(ScanPorts), fail_at \in FailAts :
          GetTopPorts(start_ts, end_ts, limit, order, fail_at)

InitScan ==
    /\ TARGET_IP = {IpA}
    /\ FLOW_STATS = << >>
    /\ IP_PROTOCOL_STATS = << >>
    /\ PORT_STATS = << >>
    /\ flow_other = 0
    /\ proto_other = 0
    /\ port_other = 0
    /\ ktime = 1
    /\ npkts = 0
    /\ last = NoRun
    /\ lanes = [l \in Lanes |-> IdleLane]
    /\ done = << >>
    /\ listen_ips = TARGET_IP
    /\ now = StartTime + MaxStores
    /\ db \in ScanDbs
    /\ nstores = MaxStores
    /\ previous_totals = << >>
    /\ last_snapshot_time = StartTime * MillisPerSec
    /\ out = NoCall
    /\ AppInit

SpecScan == InitScan /\ [][NextScan]_vars

----------------------------------------------------------------------------
(* C29 *)

StoredPortRecords(d, tag) ==
    {deserialize_PortRecord(value).record :
        value \in {v \in StoredValues(d, tag) : deserialize_PortRecord(v).ok}}

(* The keys of family tag (and of dimension dim, for an index family) with *)
(* start_ts <= timestamp < end_ts, whatever their values                   *)
KeysInRange(d, tag, dim, start_ts, end_ts) ==
    {k \in DOMAIN d : /\ starts_with(k, tag \o Colon)
                      /\ KeyParts(k).dimension = dim
                      /\ start_ts <= KeyParts(k).ts
                      /\ KeyParts(k).ts < end_ts}

ScannedTag ==
    IF out.op = "get_ip_flows_history" THEN IP_FLOWS_TAG
    ELSE IF out.op = "get_protocol_stats_history" THEN IP_PROTOCOL_TAG
    ELSE PORT_STATS_TAG

ScannedDimension == IF out.op = "get_top_ports" THEN << >> ELSE Decimal(out.ip)

(* The decodable records of the scanned family with start <= t < end *)
DecodableFlows ==
    {r \in StoredFlowRecords(db, IP_FLOWS_TAG) :
        /\ r.flow_key.ip = out.ip
        /\ out.start_ts <= r.timestamp /\ r.timestamp < out.end_ts}

DecodableProtocols ==
    {r \in StoredProtocolRecords(db, IP_PROTOCOL_TAG) :
        /\ r.ip = out.ip
        /\ out.start_ts <= r.timestamp /\ r.timestamp < out.end_ts}

DecodablePorts ==
    {r \in StoredPortRecords(db, PORT_STATS_TAG) :
        out.start_ts <= r.timestamp /\ r.timestamp < out.end_ts}

PortBytesStored(port) ==
    LET records == {r \in DecodablePorts : r.port = port}
    IN  SumOver([r \in records |-> r.stats.total_bytes], records)

Min(a, b) == IF a < b THEN a ELSE b

\* C29: a range scan (get_ip_flows_history, get_protocol_stats_history,
\* get_top_ports) skips a stored value that does not decode and goes on: when the
\* iterator does not fail the call returns Ok, and its result holds every
\* decodable record of the range, those after an undecodable value included
\* (get_top_ports: the sums per port over them, the limit largest ones); when the
\* iterator fails at an item the loop reads, the call returns an error.
C29_UndecodableSkipped ==
    out # NoCall =>
        /\ out.fail_at = 0 => out.ret.ok
        /\ (/\ out.fail_at >= 1
            /\ out.fail_at <= 1 + Cardinality(KeysInRange(db, ScannedTag, ScannedDimension,
                                                          out.start_ts, out.end_ts)))
           => ~out.ret.ok
        /\ (out.ret.ok /\ out.op = "get_ip_flows_history") =>
              /\ SeqRange(out.ret.results) = DecodableFlows
              /\ Len(out.ret.results) = Cardinality(DecodableFlows)
        /\ (out.ret.ok /\ out.op = "get_protocol_stats_history") =>
              /\ DecodableProtocols \subseteq SeqRange(out.ret.results)
              /\ SeqRange(out.ret.results)
                    \subseteq StoredProtocolRecords(db, IP_PROTOCOL_TAG)
        /\ (out.ret.ok /\ out.op = "get_top_ports") =>
              LET ports    == {r.port : r \in DecodablePorts}
                  returned == {r.port : r \in SeqRange(out.ret.results)}
              IN  /\ returned \subseteq ports
                  /\ Len(out.ret.results) = Min(out.limit, Cardinality(ports))
                  /\ Cardinality(returned) = Len(out.ret.results)
                  /\ \A r \in SeqRange(out.ret.results) :
                        r.stats.total_bytes = PortBytesStored(r.port)
                  /\ \A p \in ports \ returned, q \in returned :
                        PortBytesStored(p) <= PortBytesStored(q)

\* a scan returned the record stored after an undecodable value of its range
C29_Witness ==
    /\ out # NoCall
    /\ out.op = "get_ip_flows_history"
    /\ out.ret.ok
    /\ \E k \in KeysInRange(db, IP_FLOWS_TAG, Decimal(out.ip), out.start_ts, out.end_ts) :
          /\ ~deserialize_FlowRecord(db[k]).ok
          /\ \E r \in SeqRange(out.ret.results) :
                /\ r.timestamp > KeyParts(k).ts
                /\ r.flow_key.port = ToNat(Split(k)[4])

----------------------------------------------------------------------------
(* The rankings of the dashboard (analytics.rs): calculate_top_ips and     *)
(* calculate_top_ports.  Both iterate over HashMaps and HashSets, whose    *)
(* order is not fixed; it decides the order of entries with equal totals.  *)
(* Every map and set has a hasher of its own (RandomState::new()), so each *)
(* iterates in an order of its own.  order holds the orders of one call:   *)
(*   aggregates - of ip_aggregates                                         *)
(*   ip_ports   - per address, of the ports map built for its summary      *)
(*   ports      - of the ports argument                                    *)
(*   port_ips   - per port, of its associated_ips set                      *)
(* Each is a number that names one permutation of the keys (Permuted).     *)

TOP_IPS == 10

TOP_IP_PORTS == 5

TOP_PORTS == 10

NANOS_PER_SEC == 1000000000

RECURSIVE Ascending(_)
Ascending(set) ==
    IF set = {} THEN << >>
    ELSE LET least == CHOOSE x \in set : \A y \in set : x <= y
         IN  <<least>> \o Ascending(set \ {least})

RECURSIVE Factorial(_)
Factorial(n) == IF n <= 1 THEN 1 ELSE n * Factorial(n - 1)

(* The permutation of seq that seed names: its digits in the factorial     *)
(* number system pick the next item among those left.  The seeds           *)
(* 0..Factorial(Len(seq)) - 1 name every permutation once; 0 names seq and *)
(* the last one its reversal.                                              *)
RECURSIVE Permuted(_, _)
Permuted(seq, seed) ==
    IF Len(seq) = 0 THEN << >>
    ELSE LET n == Len(seq)
             i == (seed % n) + 1
         IN  <<seq[i]>> \o Permuted(SubSeq(seq, 1, i - 1) \o SubSeq(seq, i + 1, n),
                                    seed \div n)

(* The items of a HashMap or HashSet with these keys, as its iterator      *)
(* yields them: any order, the one that seed names                         *)
Iteration(set, seed) == Permuted(Ascending(set), seed)

(* Ipv4Addr::from(u32).to_string(): the four octets, most significant first *)
ip_to_string(ip) ==
    <<ip \div 16777216, (ip \div 65536) % 256, (ip \div 256) % 256, ip % 256>>

Greatest(set) == CHOOSE x \in set : \A y \in set : y <= x

(* sort_by on weights, then the items *)
SortedItems(weighted) ==
    LET sorted == StableSortDesc(weighted)
    IN  [i \in 1..Len(sorted) |-> sorted[i].item]

(* The entry of ip_aggregates for ip after both loops *)
IpTrafficSummaryOf(flows, ip, seed) ==
    LET keys  == {k \in DOMAIN flows : k.ip = ip}
        tcp   == {k \in keys : k.protocol = PROTOCOL_TCP}
        udp   == {k \in keys : k.protocol = PROTOCOL_UDP}
        bytes == [k \in keys |-> total_bytes(flows[k])]
        packets == [k \in keys |-> total_packets(flows[k])]
        tcp_bytes == SumOver(bytes, tcp)
        udp_bytes == SumOver(bytes, udp)
        ports == Iteration({k.port : k \in keys}, seed)
        sorted_ports ==
            SortedItems([i \in 1..Len(ports) |->
                [weight |-> SumOver(bytes, {k \in keys : k.port = ports[i]}),
                 item   |-> ports[i]]])
    IN  [ip               |-> ip_to_string(ip),
         inbound_bytes    |-> SumOver([k \in keys |-> flows[k].inbound_bytes], keys),
         outbound_bytes   |-> SumOver([k \in keys |-> flows[k].outbound_bytes], keys),
         inbound_packets  |-> SumOver([k \in keys |-> flows[k].inbound_packets], keys),
         outbound_packets |-> SumOver([k \in keys |-> flows[k].outbound_packets], keys),
         total_flows      |-> Cardinality(keys),
         top_ports        |-> Take(sorted_ports, TOP_IP_PORTS),
         protocols        |->
            [tcp_bytes   |-> tcp_bytes,
             tcp_packets |-> SumOver(packets, tcp),
             tcp_flows   |-> Cardinality(tcp),
             udp_bytes   |-> udp_bytes,
             udp_packets |-> SumOver(packets, udp),
             udp_flows   |-> Cardinality(udp),
             \* the two percentages, as exact fractions of 100
             tcp_percentage |-> IF tcp_bytes + udp_bytes > 0
                                THEN <<tcp_bytes * 100, tcp_bytes + udp_bytes>>
                                ELSE <<0, 1>>,
             udp_percentage |-> IF tcp_bytes + udp_bytes > 0
                                THEN <<udp_bytes * 100, tcp_bytes + udp_bytes>>
                                ELSE <<0, 1>>],
         last_active      |-> Greatest({flows[k].last_seen \div NANOS_PER_SEC : k \in keys})]

(* sorted_ips.sort_by(|a, b| (b.inbound_bytes + b.outbound_bytes).cmp(..)) *)
sort_ips_Ascending(summaries) ==
    SortedItems([i \in 1..Len(summaries) |->
        [weight |-> 0 - (summaries[i].inbound_bytes + summaries[i].outbound_bytes),
         item   |-> summaries[i]]])

sort_ips(summaries) ==
    SortedItems([i \in 1..Len(summaries) |->
        [weight |-> summaries[i].inbound_bytes + summaries[i].outbound_bytes,
         item   |-> summaries[i]]])

(* The protocols argument of calculate_top_ips is not read *)
calculate_top_ips(flows, order) ==
    LET ips == Iteration({k.ip : k \in DOMAIN flows}, order.aggregates)
        summaries == [i \in 1..Len(ips) |->
                        IpTrafficSummaryOf(flows, ips[i], order.ip_ports[ips[i]])]
    IN  Take(sort_ips(summaries), TOP_IPS)

ServiceNames ==
    (22 :> "SSH") @@ (53 :> "DNS") @@ (80 :> "HTTP") @@ (443 :> "HTTPS")
    @@ (3306 :> "MySQL") @@ (5432 :> "PostgreSQL") @@ (6379 :> "Redis")
    @@ (3000 :> "Development Server") @@ (8080 :> "HTTP Alt") @@ (8443 :> "HTTPS Alt")

(* Option<String>: Some(name) or None *)
Some(name) == [some |-> name]

get_service_name(port) ==
    IF port \in DOMAIN ServiceNames THEN Some(ServiceNames[port]) ELSE None

get_protocol_name(protocol) ==
    IF protocol = PROTOCOL_TCP THEN <<"TCP">>
    ELSE IF protocol = PROTOCOL_UDP THEN <<"UDP">>
    ELSE <<"Protocol ", protocol>>

PortsOf(flows, ip) == {k.port : k \in {x \in DOMAIN flows : x.ip = ip}}

IpsOf(flows, port) == {k.ip : k \in {x \in DOMAIN flows : x.port = port}}

(* associated_ips pushed once per flow record instead of inserted in a set *)
associated_ips_PerFlow(flows, port, seed) ==
    Iteration(IpsOf(flows, port), seed)
    \o Iteration({k.ip : k \in {x \in DOMAIN flows :
                                   x.port = port /\ x.protocol = PROTOCOL_UDP}}, seed)

(* associated_ips is a HashSet collected into a Vec: each address once, in *)
(* the order the set iterates in                                           *)
associated_ips(flows, port, seed) == Iteration(IpsOf(flows, port), seed)

PortTrafficSummaryOf(ports, flows, port, seed) ==
    LET ips == associated_ips(flows, port, seed)
    IN  [port               |-> port,
         service_name       |-> get_service_name(port),
         protocol           |-> get_protocol_name(ports[port].protocol),
         total_bytes        |-> ports[port].total_bytes,
         total_packets      |-> ports[port].total_packets,
         active_connections |-> ports[port].active_connections,
         associated_ips     |-> [i \in 1..Len(ips) |-> ip_to_string(ips[i])],
         last_active        |-> ports[port].last_active \div NANOS_PER_SEC]

(* port_summaries.sort_by(|a, b| b.total_bytes.cmp(&a.total_bytes)) *)
sort_ports(summaries) ==
    SortedItems([i \in 1..Len(summaries) |->
        [weight |-> summaries[i].total_bytes, item |-> summaries[i]]])

calculate_top_ports(ports, flows, order) ==
    LET iter == Iteration(DOMAIN ports, order.ports)
        summaries ==
            [i \in 1..Len(iter) |->
                PortTrafficSummaryOf(ports, flows, iter[i], order.port_ips[iter[i]])]
    IN  Take(sort_ports(summaries), TOP_PORTS)

(* Every iteration order of every map and set of one analysis of these maps *)
HashOrders(flows, ports) ==
    LET ips == {k.ip : k \in DOMAIN flows}
    IN  {order \in [aggregates : 0..(Factorial(Cardinality(ips)) - 1),
                    ip_ports   : [ips -> 0..(Factorial(Cardinality({k.port : k \in DOMAIN flows}))
                                                - 1)],
                    ports      : 0..(Factorial(Cardinality(DOMAIN ports)) - 1),
                    port_ips   : [DOMAIN ports -> 0..(Factorial(Cardinality(ips)) - 1)]] :
            /\ \A ip \in ips :
                  order.ip_ports[ip] < Factorial(Cardinality(PortsOf(flows, ip)))
            /\ \A port \in DOMAIN ports :
                  order.port_ips[port] < Factorial(Cardinality(IpsOf(flows, port)))}

----------------------------------------------------------------------------
(* SpecTop: the two rankings applied to the maps of a busy host, one call  *)
(* per behaviour.  With eleven addresses and twelve ports the orders of    *)
(* one map are too many to draw in one step, so a ranking runs item by     *)
(* item: each step takes any item the iterator has not yet yielded, which  *)
(* makes every iteration order a behaviour.  The Vec the summaries are     *)
(* collected in is kept in the order the final sort_by gives it: sort_by   *)
(* is stable, so sorting after every push and sorting once at the end      *)
(* leave the same Vec, and items of equal total stay in the order in which *)
(* the iterator yielded them.                                              *)

MaxTopIps == 11

MaxTopPorts == 6

MaxRankedPorts == 11

PortList == <<22, 53, 80, 443, 3306, 5432, 6379, 3000, 8080, 8443, 51000, 51001>>

(* 10.0.1.i *)
TopIpOf(i) == 10 * 16777216 + 256 + i

(* How the byte counts of an input compare: all different, two addresses   *)
(* and two ports with the same bytes, everything equal                     *)
Patterns == {"unequal", "pairs", "equal"}

PortIndex(port) == CHOOSE j \in 1..Len(PortList) : PortList[j] = port

(* Bytes of a flow: a multiple of 100 that depends on its address and, for *)
(* the first address, on its port.  In "pairs" the second and the third    *)
(* address have the same bytes, and so have the third and the fourth port. *)
WeightOf(k, pattern) ==
    LET i  == k.ip % 256
        j  == PortIndex(k.port)
        ii == IF pattern = "pairs" /\ i = 3 THEN 2 ELSE i
        jj == IF pattern = "pairs" /\ j = 4 THEN 3 ELSE j
    IN  IF pattern = "equal" THEN 0
        ELSE 100 * (20 * ii + (IF i = 1 THEN jj ELSE 0))

FlowsOfKeys(keys, pattern) ==
    [k \in keys |->
        IF k.direction = DIRECTION_INBOUND
        THEN StatsOf(1 + (k.port % 3), WeightOf(k, pattern), 0, 0, k.protocol)
        ELSE StatsOf(0, 0, 1 + (k.port % 3), WeightOf(k, pattern), k.protocol)]

(* A flow map for calculate_top_ips: the first address has TCP flows from  *)
(* nports ports and one UDP flow to the first of them, every other address *)
(* a UDP flow from and one to a port of its own                            *)
TopFlows(nips, nports, pattern) ==
    FlowsOfKeys(
        {FlowKeyOf(TopIpOf(1), PortList[j], PROTOCOL_TCP, DIRECTION_INBOUND) :
            j \in 1..nports}
        \cup {FlowKeyOf(TopIpOf(1), PortList[1], PROTOCOL_UDP, DIRECTION_OUTBOUND)}
        \cup {FlowKeyOf(TopIpOf(i), PortList[(i % Len(PortList)) + 1],
                        PROTOCOL_UDP, direction) :
                i \in 2..nips, direction \in Directions},
        pattern)

(* A flow map for calculate_top_ports: TCP flows of the first address from *)
(* nports ports; the first port has also two UDP flows of a second address *)
(* and the second port one of a third                                      *)
RankedFlows(nports, pattern) ==
    FlowsOfKeys(
        {FlowKeyOf(TopIpOf(1), PortList[j], PROTOCOL_TCP, DIRECTION_INBOUND) :
            j \in 1..nports}
        \cup {FlowKeyOf(TopIpOf(2), PortList[1], PROTOCOL_UDP, direction) :
                direction \in Directions}
        \cup {FlowKeyOf(TopIpOf(3), PortList[j], PROTOCOL_UDP, DIRECTION_OUTBOUND) :
                j \in 2..(IF nports < 2 THEN nports ELSE 2)},
        pattern)

(* PORT_STATS for those flows: every packet counted on its port *)
TopPorts(flows) ==
    [port \in {k.port : k \in DOMAIN flows} |->
        LET keys == {k \in DOMAIN flows : k.port = port}
            first == CHOOSE k \in keys : \A x \in keys : k.ip <= x.ip
        IN  [port |-> port, protocol |-> first.protocol,
             total_bytes |-> SumOver([k \in keys |-> total_bytes(flows[k])], keys),
             total_packets |-> SumOver([k \in keys |-> total_packets(flows[k])], keys),
             active_connections |-> SumOver([k \in keys |-> total_packets(flows[k])], keys),
             last_active |-> 1]]

(* The inputs of the two rankings.  Everything equal is given to one and   *)
(* two addresses and ports: there every order is a result of its own.      *)
(* Many addresses come with the most ports for the first one.              *)
TopIpInputs ==
    {input \in [nips : {1, 2, TOP_IPS, MaxTopIps},
                nports : {1, TOP_IP_PORTS, MaxTopPorts},
                pattern : Patterns] :
        /\ input.pattern = "equal" => input.nips <= 2
        /\ input.nips > 2 => input.nports = MaxTopPorts}

TopPortInputs ==
    {input \in [nports : {1, 2, TOP_PORTS, MaxRankedPorts}, pattern : Patterns] :
        input.pattern = "equal" => input.nports <= 2}

(* The tables below are written f @@ << >>, which makes them explicit      *)
(* functions: their entries are computed once                              *)
TopIpFlows ==
    [input \in TopIpInputs |->
        TopFlows(input.nips, input.nports, input.pattern) @@ << >>] @@ << >>

TopPortMaps ==
    [input \in TopPortInputs |->
        LET flows == RankedFlows(input.nports, input.pattern)
        IN  [flows |-> flows @@ << >>, ports |-> TopPorts(flows) @@ << >>]] @@ << >>

(* Per input and address, the summaries that the second loop of            *)
(* calculate_top_ips can leave in ip_aggregates: one for every order of    *)
(* the address's ports map                                                 *)
IpSummaries ==
    [input \in TopIpInputs |->
        LET flows == TopIpFlows[input]
        IN  [ip \in {k.ip : k \in DOMAIN flows} |->
                {IpTrafficSummaryOf(flows, ip, seed) :
                    seed \in 0..(Factorial(Cardinality(PortsOf(flows, ip))) - 1)}]
            @@ << >>] @@ << >>

(* Per input and port, the summaries that calculate_top_ports can push:    *)
(* one for every order of the port's associated_ips set                    *)
PortSummaries ==
    [input \in TopPortInputs |->
        LET maps == TopPortMaps[input]
        IN  [port \in DOMAIN maps.ports |->
                {PortTrafficSummaryOf(maps.ports, maps.flows, port, seed) :
                    seed \in 0..(Factorial(Cardinality(IpsOf(maps.flows, port))) - 1)}]
            @@ << >>] @@ << >>

topFrame == <<kernelVars, listen_ips, db, now, nstores, previous_totals,
              last_snapshot_time, appVars>>

InRanking(op, at) == out.op = op /\ out.pc = at

(* calculate_top_ips is entered: ip_aggregates holds the addresses of flows *)
BeginTopIps(input) ==
    /\ out = NoCall
    /\ out' = [op |-> "calculate_top_ips", pc |-> "iterating", input |-> input,
               left |-> {k.ip : k \in DOMAIN TopIpFlows[input]},
               sorted_ips |-> << >>]
    /\ UNCHANGED topFrame

(* The iterator of ip_aggregates yields its next item, any of those left,  *)
(* with top_ports in the order that the address's ports map gave it        *)
NextTopIp ==
    /\ InRanking("calculate_top_ips", "iterating")
    /\ \E ip \in out.left :
          \E summary \in IpSummaries[out.input][ip] :
              out' = [out EXCEPT !.left = @ \ {ip},
                                 !.sorted_ips = sort_ips(Append(@, summary))]
    /\ UNCHANGED topFrame

(* sort_by, take(10) and the return *)
ReturnTopIps ==
    /\ InRanking("calculate_top_ips", "iterating")
    /\ out.left = {}
    /\ out' = [op |-> "calculate_top_ips", pc |-> "returned",
               flows |-> TopIpFlows[out.input],
               ret |-> Take(sort_ips(out.sorted_ips), TOP_IPS)]
    /\ UNCHANGED topFrame

BeginTopPorts(input) ==
    /\ out = NoCall
    /\ out' = [op |-> "calculate_top_ports", pc |-> "iterating", input |-> input,
               left |-> DOMAIN TopPortMaps[input].ports,
               port_summaries |-> << >>]
    /\ UNCHANGED topFrame

(* The iterator of ports yields its next item, any of those left; its      *)
(* summary is pushed with associated_ips in the order its set gave it      *)
NextTopPort ==
    /\ InRanking("calculate_top_ports", "iterating")
    /\ \E port \in out.left :
          \E summary \in PortSummaries[out.input][port] :
              out' = [out EXCEPT !.left = @ \ {port},
                                 !.port_summaries = sort_ports(Append(@, summary))]
    /\ UNCHANGED topFrame

ReturnTopPorts ==
    /\ InRanking("calculate_top_ports", "iterating")
    /\ out.left = {}
    /\ out' = [op |-> "calculate_top_ports", pc |-> "returned",
               ports |-> TopPortMaps[out.input].ports,
               flows |-> TopPortMaps[out.input].flows,
               ret |-> Take(sort_ports(out.port_summaries), TOP_PORTS)]
    /\ UNCHANGED topFrame

NextTop ==
    \/ \E input \in TopIpInputs : BeginTopIps(input)
    \/ NextTopIp
    \/ ReturnTopIps
    \/ \E input \in TopPortInputs : BeginTopPorts(input)
    \/ NextTopPort
    \/ ReturnTopPorts

SpecTop == InitStore /\ [][NextTop]_vars

----------------------------------------------------------------------------
(* C22, C23 *)

NonIncreasing(weights) ==
    \A i, j \in 1..Len(weights) : i < j => weights[i] >= weights[j]

NoDuplicates(seq) == Cardinality(SeqRange(seq)) = Len(seq)

(* Sums over the flow records of one address, and of one of its ports *)
IpFlowKeys(flows, ip) == {k \in DOMAIN flows : k.ip = ip}

IpSum(flows, ip, amounts) == SumOver(amounts, IpFlowKeys(flows, ip))

IpPortBytes(flows, ip, port) ==
    SumOver([k \in DOMAIN flows |-> flows[k].inbound_bytes + flows[k].outbound_bytes],
            {k \in IpFlowKeys(flows, ip) : k.port = port})

IpBytes(flows, ip) ==
    IpSum(flows, ip,
          [k \in DOMAIN flows |-> flows[k].inbound_bytes + flows[k].outbound_bytes])

\* C22: calculate_top_ips returns one summary per distinct address of the flow
\* records, at most 10, in non-increasing order of inbound_bytes +
\* outbound_bytes, and no address left out has a greater total than a returned
\* one; the byte and packet fields of a summary are the sums over the flow
\* records of its address, total_flows is the number of its flow keys, and
\* top_ports holds at most 5 of its ports, each once, in non-increasing order of
\* the address's bytes per port (no port left out has more).
C22_TopIps ==
    InRanking("calculate_top_ips", "returned") =>
        LET flows == out.flows
            ips   == {k.ip : k \in DOMAIN flows}
            ret   == out.ret
            AddressOf(summary) == parse_ip(summary.ip).ip
            returned == {AddressOf(ret[i]) : i \in 1..Len(ret)}
        IN  /\ Len(ret) = Min(TOP_IPS, Cardinality(ips))
            /\ returned \subseteq ips
            /\ Cardinality(returned) = Len(ret)
            /\ NonIncreasing([i \in 1..Len(ret) |->
                                ret[i].inbound_bytes + ret[i].outbound_bytes])
            /\ \A ip \in ips \ returned, other \in returned :
                  IpBytes(flows, ip) <= IpBytes(flows, other)
            /\ \A i \in 1..Len(ret) :
                  LET ip    == AddressOf(ret[i])
                      ports == {k.port : k \in IpFlowKeys(flows, ip)}
                      top   == ret[i].top_ports
                  IN  /\ ret[i].inbound_bytes
                            = IpSum(flows, ip, [k \in DOMAIN flows |-> flows[k].inbound_bytes])
                      /\ ret[i].outbound_bytes
                            = IpSum(flows, ip, [k \in DOMAIN flows |-> flows[k].outbound_bytes])
                      /\ ret[i].inbound_packets
                            = IpSum(flows, ip, [k \in DOMAIN flows |-> flows[k].inbound_packets])
                      /\ ret[i].outbound_packets
                            = IpSum(flows, ip, [k \in DOMAIN flows |-> flows[k].outbound_packets])
                      /\ ret[i].total_flows = Cardinality(IpFlowKeys(flows, ip))
                      /\ Len(top) = Min(TOP_IP_PORTS, Cardinality(ports))
                      /\ SeqRange(top) \subseteq ports
                      /\ NoDuplicates(top)
                      /\ NonIncreasing([j \in 1..Len(top) |-> IpPortBytes(flows, ip, top[j])])
                      /\ \A port \in ports \ SeqRange(top), other \in SeqRange(top) :
                            IpPortBytes(flows, ip, port) <= IpPortBytes(flows, ip, other)

\* eleven addresses of unequal totals were ranked: ten returned, and the first
\* has more flow keys than ports and more than five ports
C22_Witness ==
    /\ InRanking("calculate_top_ips", "returned")
    /\ Cardinality({k.ip : k \in DOMAIN out.flows}) > TOP_IPS
    /\ Len(out.ret) = TOP_IPS
    /\ out.ret[1].inbound_bytes + out.ret[1].outbound_bytes
          > out.ret[TOP_IPS].inbound_bytes + out.ret[TOP_IPS].outbound_bytes
    /\ \E i \in 1..Len(out.ret) :
          /\ Len(out.ret[i].top_ports) = TOP_IP_PORTS
          /\ out.ret[i].total_flows > TOP_IP_PORTS + 1
          /\ out.ret[i].inbound_bytes > 0
          /\ out.ret[i].outbound_bytes > 0

NamedPorts == {22, 53, 80, 443, 3306, 5432, 6379, 3000, 8080, 8443}

\* C23: calculate_top_ports returns at most 10 port summaries in non-increasing
\* order of total_bytes, and no port left out has more total_bytes than a
\* returned one; associated_ips of a summary holds exactly the addresses of the
\* flow records with that port, each once; service_name is the fixed name for
\* 22, 53, 80, 443, 3306, 5432, 6379, 3000, 8080 and 8443 and none for another
\* port.
C23_TopPorts ==
    InRanking("calculate_top_ports", "returned") =>
        LET ret == out.ret
            returned == {ret[i].port : i \in 1..Len(ret)}
        IN  /\ Len(ret) = Min(TOP_PORTS, Cardinality(DOMAIN out.ports))
            /\ returned \subseteq DOMAIN out.ports
            /\ Cardinality(returned) = Len(ret)
            /\ NonIncreasing([i \in 1..Len(ret) |-> ret[i].total_bytes])
            /\ \A i \in 1..Len(ret) :
                  /\ ret[i].total_bytes = out.ports[ret[i].port].total_bytes
                  /\ {parse_ip(ret[i].associated_ips[j]).ip :
                         j \in 1..Len(ret[i].associated_ips)}
                        = {k.ip : k \in {x \in DOMAIN out.flows : x.port = ret[i].port}}
                  /\ NoDuplicates(ret[i].associated_ips)
                  /\ (ret[i].service_name # None) <=> (ret[i].port \in NamedPorts)
                  /\ ret[i].port = 22 => ret[i].service_name = Some("SSH")
                  /\ ret[i].port = 53 => ret[i].service_name = Some("DNS")
                  /\ ret[i].port = 80 => ret[i].service_name = Some("HTTP")
                  /\ ret[i].port = 443 => ret[i].service_name = Some("HTTPS")
                  /\ ret[i].port = 3306 => ret[i].service_name = Some("MySQL")
                  /\ ret[i].port = 5432 => ret[i].service_name = Some("PostgreSQL")
                  /\ ret[i].port = 6379 => ret[i].service_name = Some("Redis")
                  /\ ret[i].port = 3000 => ret[i].service_name = Some("Development Server")
                  /\ ret[i].port = 8080 => ret[i].service_name = Some("HTTP Alt")
                  /\ ret[i].port = 8443 => ret[i].service_name = Some("HTTPS Alt")
            /\ \A port \in DOMAIN out.ports \ returned, other \in returned :
                  out.ports[port].total_bytes <= out.ports[other].total_bytes

\* more than ten ports were ranked; a returned port has no service name, one has
\* two flows of one address and another address
C23_Witness ==
    /\ InRanking("calculate_top_ports", "returned")
    /\ Cardinality(DOMAIN out.ports) > TOP_PORTS
    /\ Len(out.ret) = TOP_PORTS
    /\ out.ret[1].total_bytes > out.ret[TOP_PORTS].total_bytes
    /\ \E i \in 1..Len(out.ret) : out.ret[i].service_name = None
    /\ \E i \in 1..Len(out.ret) :
          /\ Len(out.ret[i].associated_ips) = 2
          /\ Cardinality({k \in DOMAIN out.flows : k.port = out.ret[i].port}) = 3

----------------------------------------------------------------------------
(* The dashboard value (analytics.rs) and its publication (web_api.rs).    *)

calculate_protocol_breakdown(protocols) ==
    LET ips == DOMAIN protocols
        tcp_bytes == SumOver([ip \in ips |-> protocols[ip].tcp_bytes], ips)
        udp_bytes == SumOver([ip \in ips |-> protocols[ip].udp_bytes], ips)
    IN  [tcp_bytes   |-> tcp_bytes,
         tcp_packets |-> SumOver([ip \in ips |-> protocols[ip].tcp_packets], ips),
         tcp_flows   |-> SumOver([ip \in ips |-> protocols[ip].tcp_flows], ips),
         udp_bytes   |-> udp_bytes,
         udp_packets |-> SumOver([ip \in ips |-> protocols[ip].udp_packets], ips),
         udp_flows   |-> SumOver([ip \in ips |-> protocols[ip].udp_flows], ips),
         tcp_percentage |-> IF tcp_bytes + udp_bytes > 0
                            THEN <<tcp_bytes * 100, tcp_bytes + udp_bytes>>
                            ELSE <<0, 1>>,
         udp_percentage |-> IF tcp_bytes + udp_bytes > 0
                            THEN <<udp_bytes * 100, tcp_bytes + udp_bytes>>
                            ELSE <<0, 1>>]

generate_timeline_point(flows, timestamp) ==
    LET keys  == DOMAIN flows
        bytes == [k \in keys |-> total_bytes(flows[k])]
    IN  [timestamp     |-> timestamp,
         total_bytes   |-> SumOver(bytes, keys),
         total_packets |-> TotalPackets(flows),
         tcp_bytes     |-> SumOver(bytes, {k \in keys : k.protocol = PROTOCOL_TCP}),
         udp_bytes     |-> SumOver(bytes, {k \in keys : k.protocol = PROTOCOL_UDP}),
         active_flows  |-> Cardinality(keys)]

(* The DashboardData analyze_ebpf_data returns for the three maps it read  *)
DashboardData(flows, protocols, ports, order, previous, last_time, current_time) ==
    [realtime_metrics   |->
        analyze_ebpf_data(flows, previous, last_time, current_time).realtime_metrics,
     top_ips            |-> calculate_top_ips(flows, order),
     top_ports          |-> calculate_top_ports(ports, flows, order),
     protocol_breakdown |-> calculate_protocol_breakdown(protocols),
     timeline_data      |-> <<generate_timeline_point(flows, current_time)>>]

(* `*dashboard = Some(data)` and data.clone() take time: the first fields  *)
(* of the value are written (read) before its last ones.  Halves(a, b) is  *)
(* the value with the first fields of a and the last fields of b; where b  *)
(* holds no data the last fields are not written yet.                      *)
Halves(a, b) ==
    [realtime_metrics   |-> a.realtime_metrics,
     top_ips            |-> a.top_ips,
     top_ports          |-> a.top_ports,
     protocol_breakdown |-> IF b = None THEN None ELSE b.protocol_breakdown,
     timeline_data      |-> IF b = None THEN None ELSE b.timeline_data]

(* tokio::sync::RwLock: write() is granted when nobody holds the lock,     *)
(* read() when no writer does                                              *)
write_granted_OverReaders(lock) == ~lock.writer

write_granted(lock) == ~lock.writer /\ lock.readers = {}

read_granted(lock) == ~lock.writer

mainFrame == <<kernelVars, listen_ips, listen_ports, db, now, nstores, previous_totals,
               last_snapshot_time, out, lockVars>>

(* update_dashboard_data(data), step by step; the main loop, when it       *)
(* awaits the call, goes on to store once the call has returned            *)
UpdateLock ==
    /\ updater.pc = "lock"
    /\ write_granted(dashboard_lock)
    /\ dashboard_lock' = [dashboard_lock EXCEPT !.writer = TRUE]
    /\ updater' = [updater EXCEPT !.pc = "write"]
    /\ UNCHANGED <<mainFrame, latest_dashboard_data, readers, log, pc, prev_tick>>

UpdateWrite ==
    /\ updater.pc = "write"
    /\ latest_dashboard_data' = Halves(updater.data, latest_dashboard_data)
    /\ updater' = [updater EXCEPT !.pc = "write_rest"]
    /\ UNCHANGED <<mainFrame, dashboard_lock, readers, log, pc, prev_tick>>

UpdateWriteRest ==
    /\ updater.pc = "write_rest"
    /\ latest_dashboard_data' = updater.data
    /\ updater' = [updater EXCEPT !.pc = "unlock"]
    /\ UNCHANGED <<mainFrame, dashboard_lock, readers, log, pc, prev_tick>>

UpdateUnlock ==
    /\ updater.pc = "unlock"
    /\ dashboard_lock' = [dashboard_lock EXCEPT !.writer = FALSE]
    /\ log' = Append(log, [op |-> "update_dashboard_data", data |-> updater.data])
    /\ updater' = IdleUpdater
    /\ pc' = IF pc = "publish" THEN "store" ELSE pc
    /\ UNCHANGED <<mainFrame, latest_dashboard_data, readers, prev_tick>>

(* get_dashboard, step by step; its result is Some data or None, for the   *)
(* error answer "no data yet"                                              *)
ReadsBegun ==
    Cardinality({i \in DOMAIN log : log[i].op = "get_dashboard"})
    + Cardinality({r \in Readers : readers[r].pc # "idle"})

UpdatesDone == Cardinality({i \in DOMAIN log : log[i].op = "update_dashboard_data"})

ReadLock(r) ==
    /\ readers[r].pc = "lock"
    /\ read_granted(dashboard_lock)
    /\ dashboard_lock' = [dashboard_lock EXCEPT !.readers = @ \cup {r}]
    /\ readers' = [readers EXCEPT ![r].pc = "clone"]
    /\ UNCHANGED <<mainFrame, latest_dashboard_data, updater, log, pc, prev_tick>>

ReadClone(r) ==
    /\ readers[r].pc = "clone"
    /\ readers' = [readers EXCEPT ![r] =
            IF latest_dashboard_data = None
            THEN [pc |-> "unlock", copy |-> None]
            ELSE [pc |-> "clone_rest", copy |-> Halves(latest_dashboard_data, None)]]
    /\ UNCHANGED <<mainFrame, latest_dashboard_data, dashboard_lock, updater, log, pc,
                   prev_tick>>

ReadCloneRest(r) ==
    /\ readers[r].pc = "clone_rest"
    /\ readers' = [readers EXCEPT ![r] =
            [pc |-> "unlock", copy |-> Halves(readers[r].copy, latest_dashboard_data)]]
    /\ UNCHANGED <<mainFrame, latest_dashboard_data, dashboard_lock, updater, log, pc,
                   prev_tick>>

ReadUnlock(r) ==
    /\ readers[r].pc = "unlock"
    /\ dashboard_lock' = [dashboard_lock EXCEPT !.readers = @ \ {r}]
    /\ log' = Append(log, [op |-> "get_dashboard", ret |-> readers[r].copy])
    /\ readers' = [readers EXCEPT ![r] = IdleReader]
    /\ UNCHANGED <<mainFrame, latest_dashboard_data, updater, pc, prev_tick>>

----------------------------------------------------------------------------
(* SpecDashboard: web requests read the dashboard while the main loop      *)
(* publishes one value after another.                                      *)

MaxUpdates == 2

MaxReads == 2

TICK_SECS == 5

(* The value the n-th tick of a host with two flows publishes.  The tick   *)
(* analyses twice at one clock reading: display_enhanced_traffic_stats     *)
(* (main.rs:258) leaves the totals and the time of its analysis in the     *)
(* analyzer, and the analysis whose value is published (main.rs:268) is    *)
(* made against them.                                                      *)
UpdateArg(n, order) ==
    LET current_time == (StartTime + n * TICK_SECS) * MillisPerSec
        last_time    == (StartTime + (n - 1) * TICK_SECS) * MillisPerSec
        shown        == analyze_ebpf_data(ScanSnapshot.flows, << >>, last_time,
                                          current_time)
    IN  DashboardData(ScanSnapshot.flows, ScanSnapshot.protocols, ScanSnapshot.ports,
                      order, shown.previous_totals, shown.last_snapshot_time,
                      current_time)

BeginUpdate(order) ==
    /\ updater.pc = "idle"
    /\ UpdatesDone < MaxUpdates
    /\ updater' = [pc |-> "lock", data |-> UpdateArg(UpdatesDone + 1, order)]
    /\ UNCHANGED <<mainFrame, latest_dashboard_data, dashboard_lock, readers, log, pc,
                   prev_tick>>

BeginRead(r) ==
    /\ readers[r].pc = "idle"
    /\ ReadsBegun < MaxReads
    /\ readers' = [readers EXCEPT ![r].pc = "lock"]
    /\ UNCHANGED <<mainFrame, latest_dashboard_data, dashboard_lock, updater, log, pc,
                   prev_tick>>

NextDashboard ==
    \/ \E order \in HashOrders(ScanSnapshot.flows, ScanSnapshot.ports) : BeginUpdate(order)
    \/ UpdateLock
    \/ UpdateWrite
    \/ UpdateWriteRest
    \/ UpdateUnlock
    \/ \E r \in Readers : BeginRead(r)
    \/ \E r \in Readers : ReadLock(r)
    \/ \E r \in Readers : ReadClone(r)
    \/ \E r \in Readers : ReadCloneRest(r)
    \/ \E r \in Readers : ReadUnlock(r)

SpecDashboard == InitStore /\ [][NextDashboard]_vars

----------------------------------------------------------------------------
(* C26 *)

UpdatesBefore(i) == {j \in 1..(i - 1) : log[j].op = "update_dashboard_data"}

(* The completed update whose argument a read returned *)
SourceOf(i) == CHOOSE j \in UpdatesBefore(i) : log[j].data = log[i].ret

\* C26: the dashboard value is replaced atomically.  A get_dashboard call
\* returns "no data yet" only when no update_dashboard_data call has completed
\* before it returns, and otherwise the whole argument of one completed update,
\* never a mixture of two; a call that returns later never returns the argument
\* of an earlier update than a call that returned before it.
C26_AtomicReplace ==
    \A i \in DOMAIN log :
        log[i].op = "get_dashboard" =>
            /\ (log[i].ret = None) <=> (UpdatesBefore(i) = {})
            /\ log[i].ret # None =>
                  \E j \in UpdatesBefore(i) : log[j].data = log[i].ret
            /\ \A h \in 1..(i - 1) :
                  (log[h].op = "get_dashboard" /\ log[h].ret # None)
                      => /\ log[i].ret # None
                         /\ SourceOf(h) <= SourceOf(i)

\* two reads returned the arguments of two different updates, in their order
C26_Witness ==
    /\ \E h, i \in DOMAIN log :
          /\ h < i
          /\ log[h].op = "get_dashboard" /\ log[i].op = "get_dashboard"
          /\ log[h].ret # None /\ log[i].ret # None
          /\ log[h].ret # log[i].ret
    /\ UpdatesDone = MaxUpdates

----------------------------------------------------------------------------
(* Enumeration of the BPF maps from user space (aya's iter()): one         *)
(* bpf_map_get_next_key and one lookup per entry, with no lock, so the     *)
(* classifier runs between the reads of two entries and each entry is     *)
(* read at an instant of its own.  analyze_ebpf_data (analytics.rs:109-130) *)
(* and collect_and_store_data (main.rs:44-65) enumerate FLOW_STATS, then   *)
(* IP_PROTOCOL_STATS, then PORT_STATS, each into a HashMap of the call.    *)
(* The classifier never deletes, so the keys a map holds when its          *)
(* enumeration begins are all read; a key inserted during the enumeration  *)
(* is read or passed over, depending on its bucket, and the entries come   *)
(* in any order.  collector.todo holds the keys the map under enumeration  *)
(* had when its enumeration began.                                         *)

collectorFrame == <<kernelVars, listen_ips, db, now, nstores, previous_totals,
                    last_snapshot_time, out, taskVars>>

(* The call has made its empty maps and is about to enumerate FLOW_STATS *)
Collecting ==
    [pc |-> "flows", todo |-> DOMAIN FLOW_STATS, flows |-> << >>, protocols |-> << >>,
     ports |-> << >>]

(* Mutation: the enumeration ends before its last item *)
exhausted_SkipsLastItem(todo, read) == Cardinality(todo \ DOMAIN read) <= 1

(* get_next_key finds no further key: every key the map held when the     *)
(* enumeration began has been read                                         *)
exhausted(todo, read) == todo \subseteq DOMAIN read

(* if let Ok((key, stats)) = item { read.insert(key, stats); } *)
collect(read, key, stats) ==
    [k \in DOMAIN read \cup {key} |-> IF k = key THEN stats ELSE read[k]]

ReadFlowStats ==
    /\ collector.pc = "flows"
    /\ \E key \in DOMAIN FLOW_STATS \ DOMAIN collector.flows :
          collector' = [collector EXCEPT !.flows = collect(@, key, FLOW_STATS[key])]
    /\ UNCHANGED collectorFrame

EndFlowStats ==
    /\ collector.pc = "flows"
    /\ exhausted(collector.todo, collector.flows)
    /\ collector' = [collector EXCEPT !.pc = "protocols",
                                      !.todo = DOMAIN IP_PROTOCOL_STATS]
    /\ UNCHANGED collectorFrame

ReadProtocolStats ==
    /\ collector.pc = "protocols"
    /\ \E key \in DOMAIN IP_PROTOCOL_STATS \ DOMAIN collector.protocols :
          collector' = [collector EXCEPT
                           !.protocols = collect(@, key, IP_PROTOCOL_STATS[key])]
    /\ UNCHANGED collectorFrame

EndProtocolStats ==
    /\ collector.pc = "protocols"
    /\ exhausted(collector.todo, collector.protocols)
    /\ collector' = [collector EXCEPT !.pc = "ports", !.todo = DOMAIN PORT_STATS]
    /\ UNCHANGED collectorFrame

ReadPortStats ==
    /\ collector.pc = "ports"
    /\ \E key \in DOMAIN PORT_STATS \ DOMAIN collector.ports :
          collector' = [collector EXCEPT !.ports = collect(@, key, PORT_STATS[key])]
    /\ UNCHANGED collectorFrame

EndPortStats ==
    /\ collector.pc = "ports"
    /\ exhausted(collector.todo, collector.ports)
    /\ collector' = [collector EXCEPT !.pc = "collected", !.todo = {}]
    /\ UNCHANGED collectorFrame

(* The three enumerations of a call are over *)
Collected == collector.pc = "collected"

----------------------------------------------------------------------------
(* SpecMain: the loop of main() (main.rs), while packets arrive.           *)
(*                                                                         *)
(* select! waits for the 5 s sleep and for Ctrl-C.  The sleep branch runs  *)
(* display_enhanced_traffic_stats (which analyses), analyses again and     *)
(* publishes the result, then collects and stores; the Ctrl-C branch       *)
(* displays and stores once more and breaks.  Each analysis and each       *)
(* collection enumerates the three maps entry by entry and then computes   *)
(* from what it read.  The log keeps the last published value and the     *)
(* warnings after it.                                                      *)
(*                                                                         *)
(* The loop has no counter and does not read the clock: its calls do, each *)
(* for itself.  analyze_ebpf_data reads Utc::now() (analytics.rs:100),     *)
(* keeps the reading with its sub-second part in last_snapshot_time (152)  *)
(* and cuts the difference of two readings to seconds (101);               *)
(* store_traffic_snapshot reads it again (storage.rs:68) and keeps the     *)
(* second.  Utc::now() is the wall clock of the system, which can be set,  *)
(* so nothing orders a reading against the earlier ones: every reading is  *)
(* any of LoopReadings, which lie 4.5 s apart in seconds that lie 5 s      *)
(* apart.  A reading does not depend on the maps, and is drawn in the step *)
(* of the call that computes with it.  now is the second of the last       *)
(* reading.                                                                *)

LoopOffsets == {900, TICK_SECS * MillisPerSec + 400}

LoopReadings == {StartTime * MillisPerSec + offset : offset \in LoopOffsets}

(* DateTime::timestamp(): the whole seconds of a reading *)
timestamp(millis) == millis \div MillisPerSec

LoopSeconds == {timestamp(reading) : reading \in LoopReadings}

(* 10.0.0.1:443 -> 10.0.0.5:51000, a TCP segment of 500 bytes *)
LoopPackets ==
    {[len |-> 54, ether_type |-> ETH_P_IP, proto |-> PROTOCOL_TCP, src |-> IpB,
      dst |-> IpA, sport |-> 443, dport |-> 51000, tot_len |-> 500]}

loopFrame == <<listen_ips, listen_ports, latest_dashboard_data, dashboard_lock, readers,
               listen_ips_lock, callers>>

(* Each packet of LoopPackets arrives once *)
MaxLoopPackets == Cardinality(LoopPackets)

(* The packets arrive on one CPU; the steps of the main task can fall      *)
(* between any two map accesses of a run.                                  *)
Traffic ==
    \E l \in {1} :
        \/ \E pkt \in LoopPackets : npkts < MaxLoopPackets /\ LaneStart(l, pkt)
        \/ LaneStep(l)

(* The sleep is over first: the tick fires *)
Sleep ==
    /\ pc = "select"
    /\ pc' = "display"
    /\ UNCHANGED <<kernelVars, loopFrame, db, now, nstores, previous_totals,
                   last_snapshot_time, out, updater, log, prev_tick, collector>>

CancelExitsAtOnce ==
    /\ pc = "select"
    /\ pc' = "exited"
    /\ UNCHANGED <<kernelVars, loopFrame, db, now, nstores, previous_totals,
                   last_snapshot_time, out, updater, log, prev_tick, collector>>

(* Ctrl-C arrives first: the final pass begins *)
Cancel ==
    /\ pc = "select"
    /\ pc' = "final_display"
    /\ UNCHANGED <<kernelVars, loopFrame, db, now, nstores, previous_totals,
                   last_snapshot_time, out, updater, log, prev_tick, collector>>

(* The positions of the loop at which a call enumerates the maps *)
Enumerating == {"display", "analyze", "store", "final_display", "final_store"}

(* analyze_ebpf_data makes its maps (analytics.rs:107);                    *)
(* collect_and_store_data makes its maps (main.rs:43)                      *)
BeginCall ==
    /\ pc \in Enumerating
    /\ collector.pc = "idle"
    /\ collector' = Collecting
    /\ UNCHANGED collectorFrame

(* display_enhanced_traffic_stats: analyses what it read at the clock      *)
(* reading current_time, logs the metrics, returns Ok                      *)
DisplayFrom(at, next, current_time) ==
    /\ pc = at
    /\ Collected
    /\ LET r == analyze_ebpf_data(collector.flows, previous_totals, last_snapshot_time,
                                  current_time)
       IN  /\ previous_totals' = r.previous_totals
           /\ last_snapshot_time' = r.last_snapshot_time
           /\ out' = [op |-> "display_enhanced_traffic_stats",
                      current_time |-> current_time,
                      realtime_metrics |-> r.realtime_metrics, ret |-> "Ok"]
    /\ pc' = next
    /\ now' = timestamp(current_time)
    /\ collector' = IdleCollector
    /\ UNCHANGED <<kernelVars, loopFrame, db, nstores, updater, log, prev_tick>>

Display(current_time) == DisplayFrom("display", "analyze", current_time)

FinalDisplay(current_time) == DisplayFrom("final_display", "final_store", current_time)

(* The second analysis of the tick, at the clock reading current_time; its *)
(* value is handed to update_dashboard_data.  prev_tick keeps what this    *)
(* analysis read.  Its maps and sets iterate in any order.                 *)
Analyze(current_time) ==
    /\ pc = "analyze"
    /\ Collected
    /\ \E order \in HashOrders(collector.flows, collector.ports) :
       LET r == analyze_ebpf_data(collector.flows, previous_totals, last_snapshot_time,
                                  current_time)
           data == DashboardData(collector.flows, collector.protocols, collector.ports,
                                 order, previous_totals, last_snapshot_time,
                                 current_time)
       IN  /\ previous_totals' = r.previous_totals
           /\ last_snapshot_time' = r.last_snapshot_time
           /\ updater' = [pc |-> "lock", data |-> data]
           /\ out' = [op |-> "analyze_ebpf_data", flows |-> collector.flows,
                      current_time |-> current_time,
                      last_time |-> last_snapshot_time,
                      previous |-> previous_totals,
                      realtime_metrics |-> r.realtime_metrics]
           /\ prev_tick' = [total_bytes |-> TotalBytes(collector.flows),
                            total_packets |-> TotalPackets(collector.flows),
                            time |-> current_time]
    /\ pc' = "publish"
    /\ now' = timestamp(current_time)
    /\ log' = << >>
    /\ collector' = IdleCollector
    /\ UNCHANGED <<kernelVars, loopFrame, db, nstores>>

(* The line warn! writes for the error of a store (main.rs:282) *)
Warning(error) == [op |-> "warn", error |-> error]

(* collect_and_store_data: stores the three maps it read, under the second *)
(* ts that the store reads (storage.rs:68-69); the tick logs an Err with   *)
(* warn! and goes on, the final pass drops it (let _).  nstores counts up  *)
(* to MaxStores.                                                           *)
StoreFrom(at, next, warns, ts, fail) ==
    /\ pc = at
    /\ Collected
    /\ fail = "serialize" => DOMAIN collector.flows # {}
    /\ LET r == store_traffic_snapshot(db, collector.flows, collector.protocols,
                                       collector.ports, ts, fail)
       IN  /\ db' = r.db
           /\ out' = [op |-> "collect_and_store_data", ts |-> ts, ret |-> r.ret]
           /\ log' = IF warns /\ r.ret # "Ok" THEN Append(log, Warning(r.ret)) ELSE log
    /\ nstores' = IF nstores < MaxStores THEN nstores + 1 ELSE nstores
    /\ pc' = next
    /\ now' = ts
    /\ collector' = IdleCollector
    /\ UNCHANGED <<kernelVars, loopFrame, previous_totals, last_snapshot_time,
                   updater, prev_tick>>

CollectAndStoreEndsLoopOnError(ts, fail) ==
    StoreFrom("store", IF fail = "none" THEN "select" ELSE "exited", TRUE, ts, fail)

CollectAndStore(ts, fail) == StoreFrom("store", "select", TRUE, ts, fail)

FinalCollectAndStore(ts, fail) == StoreFrom("final_store", "exited", FALSE, ts, fail)

Update == UpdateLock \/ UpdateWrite \/ UpdateWriteRest \/ UpdateUnlock

(* A step of the enumerations of the call in progress *)
Enumerate ==
    \/ ReadFlowStats
    \/ EndFlowStats
    \/ ReadProtocolStats
    \/ EndProtocolStats
    \/ ReadPortStats
    \/ EndPortStats

NextMain ==
    \/ Traffic
    \/ Sleep
    \/ Cancel
    \/ BeginCall
    \/ Enumerate
    \/ \E current_time \in LoopReadings : Display(current_time)
    \/ \E current_time \in LoopReadings : Analyze(current_time)
    \/ Update
    \/ \E ts \in LoopSeconds, fail \in Failures : CollectAndStore(ts, fail)
    \/ \E current_time \in LoopReadings : FinalDisplay(current_time)
    \/ \E ts \in LoopSeconds, fail \in Failures : FinalCollectAndStore(ts, fail)

(* The analyzer is made before the loop (main.rs:219), at a reading of its *)
(* own                                                                     *)
InitMain ==
    /\ \E made \in LoopReadings : InitAt(made)
    /\ TARGET_IP = {IpA}
    /\ flow_other = 0
    /\ proto_other = 0
    /\ port_other = 0

SpecMain == InitMain /\ [][NextMain]_vars

Positions ==
    {"select", "display", "analyze", "publish", "store", "final_display",
     "final_store", "exited"}

(* The main task returns from the call it is in *)
Returns == pc \in Enumerating /\ pc' \in Positions \ {pc}

(* The runtime keeps running the main task: a sleep that is over happens,  *)
(* and so does each step of the branch taken.  The calls of a branch are   *)
(* total: a call that has begun enumerates, an enumeration ends (the maps  *)
(* are bounded and each key is read once) and the computation on what was  *)
(* read returns, so the task that is in a call can go on until it returns  *)
(* from it, and the condition on the calls is stated on the position.      *)
(* Nothing makes Ctrl-C or a packet arrive.  The loop has no last tick.    *)
SpecMainFair ==
    /\ SpecMain
    /\ WF_vars(Sleep)
    /\ WF_vars(Update)
    /\ WF_pc(Returns)

----------------------------------------------------------------------------
(* C21 *)

(* A step that hands the value of a periodic analysis to                   *)
(* update_dashboard_data, after an earlier tick did so                     *)
Publishes == pc = "analyze" /\ pc' = "publish"

\* C21: at every periodic tick the bandwidth and the packet rate of the
\* DashboardData the tick publishes are computed against the totals and the
\* clock reading of the preceding tick: (total now - total at the preceding
\* tick) div max(seconds since the preceding tick, 1), so 500 bytes of new
\* traffic between two ticks 5 s apart are published as a bandwidth of 100.
\* The program does not keep it: the tick analyses twice, and the published
\* value is measured against the first analysis of the same tick.
C21_PublishedRatesSpanTheTick ==
    [][(Publishes /\ prev_tick # None) =>
          LET elapsed == num_seconds(out'.current_time - prev_tick.time)
              metrics == updater'.data.realtime_metrics
          IN  /\ metrics.total_bandwidth_bps
                    = RateAsClaimed(TotalBytes(collector.flows), prev_tick.total_bytes,
                                    elapsed)
              /\ metrics.total_packet_rate_pps
                    = RateAsClaimed(TotalPackets(collector.flows),
                                    prev_tick.total_packets, elapsed)]_vars

----------------------------------------------------------------------------
(* C24, C25 *)

FinalPass == {"final_display", "final_store"}

TickBody == {"display", "analyze", "publish", "store"}

\* C24: when Ctrl-C wins the select, one final pass (display_enhanced_traffic_stats,
\* then collect_and_store_data) runs to its end before the loop is left: the
\* final display starts at the select only and is followed by the final store,
\* the process exits only as the final store returns, with Ok or with an error,
\* a final store that returns Ok has stored what it collected under the second
\* the final store read, no step of a tick body follows the final pass, nothing
\* changes after the exit, and a final pass that has begun ends with the exit.
C24_FinalPassCompletes ==
    /\ [][/\ (pc' = "final_display" /\ pc # "final_display") => pc = "select"
          /\ (pc' = "final_store" /\ pc # "final_store") =>
                /\ pc = "final_display"
                /\ out'.op = "display_enhanced_traffic_stats"
          /\ (pc' = "exited" /\ pc # "exited") =>
                /\ pc = "final_store"
                /\ out'.op = "collect_and_store_data"
                /\ out'.ret = "Ok" => db' = store_traffic_snapshot(
                                              db, collector.flows, collector.protocols,
                                              collector.ports, out'.ts, "none").db
          /\ pc \in FinalPass \cup {"exited"} => pc' \notin TickBody \cup {"select"}
          /\ pc = "exited" => UNCHANGED userVars]_vars
    /\ (pc \in FinalPass) ~> (pc = "exited")

\* the process has exited after a final pass whose store failed, with a
\* tick's snapshot in the store; the final display and the final store read
\* the clock in different seconds
C24_Witness ==
    /\ pc = "exited"
    /\ out.op = "collect_and_store_data"
    /\ out.ret # "Ok"
    /\ db # << >>
    /\ timestamp(last_snapshot_time) # out.ts

(* The loop has been left, or is being left *)
Cancelled == pc \in FinalPass \cup {"exited"}

\* C25: a failure of the storage in a periodic cycle neither ends the loop nor
\* is retried in that cycle: the failed collect_and_store_data stores nothing,
\* its error is logged with warn! (and nothing is logged for a store that
\* succeeded) and the loop returns to the select; the analysis of a cycle does
\* not fail; every tick that fires runs all of its steps, after every cycle the
\* next tick fires unless Ctrl-C arrives, and as long as Ctrl-C does not arrive
\* the ticks go on forever.
C25_LoopSurvivesFailures ==
    /\ [][/\ (pc = "store" /\ pc' # "store") =>
                /\ pc' = "select"
                /\ out'.op = "collect_and_store_data"
                /\ out'.ret # "Ok" => /\ db' = db
                                      /\ log' = Append(log, Warning(out'.ret))
                /\ out'.ret = "Ok" => log' = log
          /\ (pc = "display" /\ pc' # "display") => pc' = "analyze" /\ out'.ret = "Ok"
          /\ (pc = "analyze" /\ pc' # "analyze") => pc' = "publish"
          /\ (pc = "publish" /\ pc' # "publish") => pc' = "store"
          /\ (pc = "select" /\ pc' # "select") => pc' \in {"display", "final_display"}
         ]_vars
    /\ (pc = "display") ~> (pc = "select")
    /\ (pc = "select") ~> (pc \in {"display", "final_display"})
    /\ ([]<>(pc = "display")) \/ (<>Cancelled)

\* the loop is in a tick after a cycle whose store failed and logged its
\* error, with the snapshot of an earlier cycle in the store
C25_Witness ==
    /\ pc = "display"
    /\ out.op = "collect_and_store_data"
    /\ out.ret # "Ok"
    /\ Len(log) > 0
    /\ log[Len(log)] = Warning(out.ret)
    /\ db # << >>

----------------------------------------------------------------------------
(* C31 *)

PortConnections(m, port) == IF port \in DOMAIN m THEN m[port].active_connections ELSE 0

(* Per watched side of pkt on port, the entry of the port got one packet,  *)
(* one connection and tot_len bytes, and the time of the run               *)
PortCountedAt(pkt, port) ==
    LET sides == SidesOfPort(pkt, port)
    IN  /\ PortPackets(PORT_STATS', port) = PortPackets(Port0, port) + sides
        /\ PortBytes(PORT_STATS', port) = PortBytes(Port0, port) + sides * pkt.tot_len
        /\ PortConnections(PORT_STATS', port)
              = PortConnections(Port0, port) + sides
        /\ sides > 0 => /\ port \in DOMAIN PORT_STATS'
                        /\ PORT_STATS'[port].last_active = last'.ts
        /\ sides = 0 => SameEntry(Port0, PORT_STATS', port)

\* C31 as claimed: every run on a complete packet adds, per watched side, the
\* packet's bytes, 1 packet and 1 connection to the entry of that side's port
\* and sets its last_active to the packet's timestamp, whatever the addresses;
\* both sides watched with equal ports add 2; stated for the runs that no other
\* run overlaps.  (Fails when the port has no entry and PORT_STATS is full.)
C31_AsClaimed ==
    [][(RanAlone /\ Complete(last'.pkt)) =>
          \A port \in Ports : PortCountedAt(last'.pkt, port)]_vars

\* C31 (amended): a run that no other run overlaps, on a complete packet, adds,
\* per watched side, the
\* packet's bytes, 1 packet and 1 connection to the entry of that side's port
\* and sets its last_active to the packet's timestamp, for every port that had
\* an entry, and for every port when PORT_STATS has room for the new ones; a
\* port whose insert the full map rejects stays without an entry.  The entry of
\* a port is one for all addresses: both sides watched with equal ports add 2.
C31_PortCounted ==
    [][(RanAlone /\ Complete(last'.pkt)) =>
          \A port \in Ports :
              \/ PortCountedAt(last'.pkt, port)
              \/ /\ port \notin DOMAIN Port0
                 /\ port \notin DOMAIN PORT_STATS'
                 /\ ~HasRoom(Port0, port_other, PORT_MAX_ENTRIES,
                             {k.port : k \in WatchedKeys(last'.pkt)})]_vars

\* one packet between two watched addresses with equal ports, after a packet
\* on that port, left the port's entry with three packets
C31_Witness ==
    /\ last.alone
    /\ npkts = 2
    /\ last.pkt.src \in TARGET_IP
    /\ last.pkt.dst \in TARGET_IP
    /\ last.pkt.src # last.pkt.dst
    /\ last.pkt.sport = last.pkt.dport
    /\ last.pkt.sport \in DOMAIN PORT_STATS
    /\ PORT_STATS[last.pkt.sport].total_packets = 3
    /\ PORT_STATS[last.pkt.sport].active_connections = 3
    /\ PORT_STATS[last.pkt.sport].last_active = last.ts

----------------------------------------------------------------------------
(* C32 *)

(* The lanes that are about to put back a flow entry *)
FlowPutters == {l \in Lanes : lanes[l].pc = "flow_put"}

\* C32: in every state the lanes reach, racing or not, every entry of
\* FLOW_STATS has connection_count = inbound_packets + outbound_packets (the
\* counters of the model stay far below 2^32); every FLOW_STATS.insert writes
\* connection_count 1 for a key the lane's get did not find and the count of the
\* lane's copy + 1 otherwise, on every packet, and it writes the whole entry.
C32_ConnectionCountIsPacketCount ==
    /\ [](\A k \in DOMAIN FLOW_STATS :
              FLOW_STATS[k].connection_count
                  = FLOW_STATS[k].inbound_packets + FLOW_STATS[k].outbound_packets)
    /\ [][\A l \in FlowPutters :
              (lanes'[l].pc # "flow_put" /\ LaneKey(lanes[l]) \in DOMAIN FLOW_STATS') =>
                  LET copy == lanes[l].got
                      entry == FLOW_STATS'[LaneKey(lanes[l])]
                  IN  /\ entry.connection_count
                            = IF copy = None THEN 1 ELSE copy.connection_count + 1
                      /\ entry.inbound_packets + entry.outbound_packets
                            = IF copy = None THEN 1
                              ELSE copy.inbound_packets + copy.outbound_packets + 1
                      /\ entry.protocol = lanes[l].pkt.proto
                      /\ entry.last_seen = lanes[l].ts]_vars

\* three packets of one key were put back by racing lanes and one increment
\* was lost: the entry counts two packets and two connections
C32_Witness ==
    \E k \in DOMAIN FLOW_STATS :
        /\ Count(done, k) = 3
        /\ FLOW_STATS[k].connection_count = 2
        /\ FLOW_STATS[k].inbound_packets + FLOW_STATS[k].outbound_packets = 2

----------------------------------------------------------------------------
(* C35 *)

\* C35: in every reachable state an entry of FLOW_STATS under a key of
\* direction inbound has outbound_packets = 0 and outbound_bytes = 0, an entry
\* under a key of direction outbound has inbound_packets = 0 and
\* inbound_bytes = 0, and the protocol field of an entry is its key's protocol.
C35_EntryFollowsItsKey ==
    \A k \in DOMAIN FLOW_STATS :
        /\ k.direction = DIRECTION_INBOUND =>
              /\ FLOW_STATS[k].outbound_packets = 0
              /\ FLOW_STATS[k].outbound_bytes = 0
        /\ k.direction = DIRECTION_OUTBOUND =>
              /\ FLOW_STATS[k].inbound_packets = 0
              /\ FLOW_STATS[k].inbound_bytes = 0
        /\ FLOW_STATS[k].protocol = k.protocol

\* an inbound and an outbound UDP entry, each updated by a second packet
C35_Witness ==
    \E k1, k2 \in DOMAIN FLOW_STATS :
        /\ k1.direction = DIRECTION_INBOUND
        /\ k2.direction = DIRECTION_OUTBOUND
        /\ k1.protocol = PROTOCOL_UDP
        /\ FLOW_STATS[k1].inbound_packets = 2
        /\ FLOW_STATS[k2].outbound_packets = 2

----------------------------------------------------------------------------
(* C36 *)

(* Packets and bytes of the flow entries under keys, both directions *)
RECURSIVE FlowPacketSum(_, _)
FlowPacketSum(m, keys) ==
    IF keys = {} THEN 0
    ELSE LET k == CHOOSE x \in keys : TRUE
         IN  m[k].inbound_packets + m[k].outbound_packets + FlowPacketSum(m, keys \ {k})

RECURSIVE FlowByteSum(_, _)
FlowByteSum(m, keys) ==
    IF keys = {} THEN 0
    ELSE LET k == CHOOSE x \in keys : TRUE
         IN  m[k].inbound_bytes + m[k].outbound_bytes + FlowByteSum(m, keys \ {k})

RECURSIVE PortPacketSum(_, _)
PortPacketSum(m, keys) ==
    IF keys = {} THEN 0
    ELSE LET k == CHOOSE x \in keys : TRUE
         IN  m[k].total_packets + PortPacketSum(m, keys \ {k})

RECURSIVE PortByteSum(_, _)
PortByteSum(m, keys) ==
    IF keys = {} THEN 0
    ELSE LET k == CHOOSE x \in keys : TRUE
         IN  m[k].total_bytes + PortByteSum(m, keys \ {k})

FlowsOf(ip, pr) == {k \in DOMAIN FLOW_STATS : k.ip = ip /\ k.protocol = pr}

(* No insert was rejected so far: every flow key an insert was called for  *)
(* is in FLOW_STATS, its address in IP_PROTOCOL_STATS and its port in      *)
(* PORT_STATS (the maps never lose a key)                                  *)
NoInsertRejected ==
    \A k \in DOMAIN done :
        /\ k \in DOMAIN FLOW_STATS
        /\ k.ip \in DOMAIN IP_PROTOCOL_STATS
        /\ k.port \in DOMAIN PORT_STATS

MapsConsistent ==
    /\ \A ip \in IPs, pr \in Protocols :
          /\ ProtoPackets(IP_PROTOCOL_STATS, ip, pr)
                = FlowPacketSum(FLOW_STATS, FlowsOf(ip, pr))
          /\ ProtoBytes(IP_PROTOCOL_STATS, ip, pr)
                = FlowByteSum(FLOW_STATS, FlowsOf(ip, pr))
    /\ \A ip \in DOMAIN IP_PROTOCOL_STATS :
          IP_PROTOCOL_STATS[ip].tcp_packets + IP_PROTOCOL_STATS[ip].udp_packets
              = FlowPacketSum(FLOW_STATS, {k \in DOMAIN FLOW_STATS : k.ip = ip})
    /\ PortPacketSum(PORT_STATS, DOMAIN PORT_STATS)
          = FlowPacketSum(FLOW_STATS, DOMAIN FLOW_STATS)
    /\ PortByteSum(PORT_STATS, DOMAIN PORT_STATS)
          = FlowByteSum(FLOW_STATS, DOMAIN FLOW_STATS)

(* No two runs have overlapped so far *)
OneAtATime == last.seq /\ \A l \in Lanes : lanes[l].alone

\* C36 as claimed: with packets classified one at a time and no insert rejected
\* for capacity, in every reachable state the protocol entry of every address
\* has, per protocol and in total, the packets and the bytes of the address's
\* flow entries summed over both directions, and the port entries together have
\* the packets and the bytes of all flow entries.  (Fails between the inserts of
\* one run: the flow entry counts the packet before the protocol entry does.)
C36_AsClaimed == (OneAtATime /\ NoInsertRejected) => MapsConsistent

\* C36 (amended): with packets classified one at a time and no insert rejected
\* for capacity, in every state in which no run is in progress the protocol
\* entry of every address has, per protocol and in total, the packets and the
\* bytes of the address's flow entries summed over both directions, and the
\* port entries together have the packets and the bytes of all flow entries.
C36_MapsConsistent == (Quiescent /\ last.seq /\ NoInsertRejected) => MapsConsistent

\* two packets of different protocols between two watched addresses were
\* counted on both sides, nothing rejected: four flow entries, two protocol
\* entries and two port entries
C36_Witness ==
    /\ NoInsertRejected
    /\ Quiescent
    /\ last.seq
    /\ npkts = 2
    /\ Cardinality(DOMAIN FLOW_STATS) = 4
    /\ Cardinality(DOMAIN IP_PROTOCOL_STATS) = 2
    /\ Cardinality(DOMAIN PORT_STATS) = 2
    /\ \E ip \in DOMAIN IP_PROTOCOL_STATS :
          IP_PROTOCOL_STATS[ip].tcp_packets = 1 /\ IP_PROTOCOL_STATS[ip].udp_packets = 1

----------------------------------------------------------------------------
(* C37 *)

(* The insert under key was rejected by the step: the key is in the map    *)
(* neither before nor after it, and the map is full                        *)
Rejected(m, mNext, other, max, key) ==
    /\ key \notin DOMAIN m
    /\ key \notin DOMAIN mNext
    /\ MapLen(mNext, other) >= max

\* C37: the three updates of a run do not depend on each other's outcome: in
\* every interleaving a run goes from its flow insert on to its protocol and
\* port inserts whatever the insert returned, and in a run that no other run
\* overlaps, for each watched side of a complete packet, the flow entry of its key is updated
\* unless FLOW_STATS is full and lacks the key, the protocol entry of its
\* address is updated unless IP_PROTOCOL_STATS is full and lacks the address,
\* and the port entry of its port is updated unless PORT_STATS is full and lacks
\* the port, each whatever became of the other two inserts; a rejected insert
\* leaves its own map alone and undoes nothing in the others.
C37_UpdatesIndependent ==
    /\ [][(RanAlone /\ Complete(last'.pkt)) =>
          LET pkt == last'.pkt
          IN  /\ \A k \in WatchedKeys(pkt) :
                    \/ FlowCounted(k, pkt.tot_len)
                    \/ Rejected(Flow0, FLOW_STATS', flow_other, FLOW_MAX_ENTRIES, k)
              /\ \A k \in WatchedKeys(pkt) :
                    \/ ProtocolCountedAt(pkt, k.ip, SidesOfIp(pkt, k.ip))
                    \/ Rejected(Proto0, IP_PROTOCOL_STATS', proto_other,
                                PROTO_MAX_ENTRIES, k.ip)
              /\ \A k \in WatchedKeys(pkt) :
                    \/ PortCountedAt(pkt, k.port)
                    \/ Rejected(Port0, PORT_STATS', port_other,
                                PORT_MAX_ENTRIES, k.port)
              /\ \A k \in DOMAIN Flow0 \ WatchedKeys(pkt) :
                    SameEntry(Flow0, FLOW_STATS', k)]_vars
    /\ [][\A l \in Lanes :
              /\ (lanes[l].pc = "flow_put" /\ Steps(l)) => lanes'[l].pc = "proto_get"
              /\ (lanes[l].pc = "proto_get" /\ Steps(l)) => lanes'[l].pc = "proto_put"
              /\ (lanes[l].pc = "proto_put" /\ Steps(l)) => lanes'[l].pc = "port_get"
              /\ (lanes[l].pc = "port_get" /\ Steps(l)) => lanes'[l].pc = "port_put"]_vars

\* the flow insert of a packet was rejected by the full FLOW_STATS, and the
\* packet is counted in the protocol entry of its address and in the port entry
\* of its port
C37_Witness ==
    /\ last.alone
    /\ flow_other = FLOW_MAX_ENTRIES
    /\ npkts = 1
    /\ \E k \in DOMAIN done :
          /\ k \notin DOMAIN FLOW_STATS
          /\ k.ip \in DOMAIN IP_PROTOCOL_STATS
          /\ ProtoPackets(IP_PROTOCOL_STATS, k.ip, k.protocol) >= 1
          /\ k.port \in DOMAIN PORT_STATS
          /\ PORT_STATS[k.port].total_packets >= 1

----------------------------------------------------------------------------
(* SpecPorts: the lanes of SpecLanes on TCP segments and UDP datagrams from *)
(* one watched port, so that the port's entry is reached by both protocols. *)

\* 10.0.0.5:443 -> 10.0.0.1:51000 as a TCP segment and as a UDP datagram
SharedPortPackets ==
    { p \in FlowPackets : p.src = IpA /\ p.dst = IpB /\ p.dport = 51000 }

NextPorts ==
    \E l \in Lanes :
        \/ \E pkt \in SharedPortPackets : npkts < MaxLanePackets /\ LaneStart(l, pkt)
        \/ LaneSrcTest(l)
        \/ LaneFlowGet(l)
        \/ LaneFlowPut(l)
        \/ LaneProtoGet(l)
        \/ LaneProtoPut(l)
        \/ LanePortGet(l)
        \/ LanePortPut(l)
        \/ LaneDstTest(l)

SpecPorts == InitLanes /\ [][NextPorts]_vars

----------------------------------------------------------------------------
(* C38 *)

(* The lanes that are about to put back a port entry *)
PortPutters == {l \in Lanes : lanes[l].pc = "port_put"}

\* C38 as claimed: the port and protocol fields of a port entry are those of
\* the first packet that created it and no later step changes them.  (Fails
\* when two lanes race: a lane that found no entry, or holds a copy of an older
\* one, puts its entry over one of the other protocol.)
C38_AsClaimed ==
    [][\A port \in DOMAIN PORT_STATS :
          /\ port \in DOMAIN PORT_STATS'
          /\ PORT_STATS'[port].port = PORT_STATS[port].port
          /\ PORT_STATS'[port].protocol = PORT_STATS[port].protocol]_vars

\* C38 (amended): the port field of a port entry is its key; every
\* PORT_STATS.insert writes the protocol of the packet when the lane's get found
\* no entry and the protocol of the lane's copy otherwise, never the protocol
\* of a later packet, while adding to total_bytes, total_packets and
\* active_connections; so a put-back of a copy that is still the stored entry
\* (always, when packets are classified one at a time) leaves the protocol
\* field as the first packet set it, and only a lane that races another can
\* store an entry of another protocol.
C38_ProtocolOfTheCopy ==
    /\ [](\A port \in DOMAIN PORT_STATS : PORT_STATS[port].port = port)
    /\ [][/\ \A l \in PortPutters :
                lanes'[l].pc # "port_put" =>
                    LET port == LanePort(lanes[l])
                        copy == lanes[l].got
                        entry == PORT_STATS'[port]
                    IN  /\ port \in DOMAIN PORT_STATS'
                        /\ entry.protocol = IF copy = None THEN lanes[l].pkt.proto
                                            ELSE copy.protocol
                        /\ copy # None =>
                              /\ entry.total_packets = copy.total_packets + 1
                              /\ entry.active_connections = copy.active_connections + 1
                              /\ entry.total_bytes
                                    = copy.total_bytes + lanes[l].pkt.tot_len
                        /\ (copy # None /\ copy = MapGet(PORT_STATS, port)) =>
                              entry.protocol = PORT_STATS[port].protocol
          /\ (\A l \in PortPutters : lanes'[l].pc = "port_put") =>
                UNCHANGED PORT_STATS]_vars

\* the entry of port 443 was created by a TCP segment and then counted a UDP
\* datagram and a third packet: three packets, protocol still TCP
C38_Witness ==
    /\ 443 \in DOMAIN PORT_STATS
    /\ PORT_STATS[443].protocol = PROTOCOL_TCP
    /\ PORT_STATS[443].total_packets = 3
    /\ IpA \in DOMAIN IP_PROTOCOL_STATS
    /\ IP_PROTOCOL_STATS[IpA].udp_packets >= 1
    /\ \A l \in Lanes : lanes[l].pc = "idle"

----------------------------------------------------------------------------
(* C34 *)

\* C34: cleanup_old_data(cutoff) deletes no record newer than the cutoff:
\* every key of the store whose embedded timestamp is > cutoff is in the store
\* with its value after the call, whether the call succeeds or fails, on every
\* store the snapshots have built.
C34_NewerRecordsKept ==
    [][Cleaned =>
          \A key \in DOMAIN db :
              KeyParts(key).ts > out'.before =>
                  key \in DOMAIN db' /\ db'[key] = db[key]]_vars

\* a successful cleanup_old_data ran on a store holding flow, protocol and
\* port_stats records newer than its cutoff, and they are still there
C34_Witness ==
    /\ out.op = "cleanup_old_data"
    /\ out.ret.ok
    /\ \A tag \in {FLOW_TAG, PROTOCOL_TAG, PORT_STATS_TAG} :
          \E key \in DOMAIN db :
              KeyParts(key).family = tag /\ KeyParts(key).ts > out.before

----------------------------------------------------------------------------
(* C39 *)

(* The keys of the store that carry second ts *)
KeysOfSecond(d, ts) == {key \in DOMAIN d : KeyParts(key).ts = ts}

(* A successful store_traffic_snapshot call that follows a successful one  *)
(* of the same second                                                      *)
StoredAgain ==
    /\ StoredOk
    /\ out.op = "store_traffic_snapshot"
    /\ out.ret = "Ok"
    /\ out.ts = out'.ts

\* C39: two store_traffic_snapshot calls of one Unix second write the entries
\* they share under the same keys: after the later call every key of the later
\* snapshot holds the later call's record, a flow both snapshots hold is read
\* back through flow: and ip_flows: and held under port_flows: once, with the
\* later stats and not with the earlier ones, the keys of the earlier call that the later one
\* does not write keep their records, and the second has the keys of the union
\* of what it had and what the later call wrote, fewer than the sum when the
\* snapshots share an entry.
C39_SameSecondOverwrites ==
    [][StoredAgain =>
        LET ts      == out'.ts
            earlier == KeysAsClaimed(out.snap, ts)
            later   == KeysAsClaimed(out'.snap, ts)
            shared  == DOMAIN out.snap.flows \cap DOMAIN out'.snap.flows
        IN  /\ earlier \subseteq KeysOfSecond(db, ts)
            /\ KeysOfSecond(db', ts) = KeysOfSecond(db, ts) \cup later
            /\ KeysOfSecond(db, ts) = earlier =>
                  Cardinality(KeysOfSecond(db', ts)) = Cardinality(earlier \cup later)
            /\ shared # {} =>
                  Cardinality(KeysOfSecond(db', ts))
                      < Cardinality(KeysOfSecond(db, ts)) + Cardinality(later)
            /\ \A key \in earlier \ later : db'[key] = db[key]
            /\ \A k \in DOMAIN out'.snap.flows :
                  LET keys == FlowKeysAsClaimed(ts, k)
                  IN  \A i \in 1..3 :
                         db'[keys[i]]
                            = serialize_FlowRecord(FlowRecord(ts, k, out'.snap.flows[k]))
            /\ \A ip \in DOMAIN out'.snap.protocols :
                  \A i \in 1..2 :
                     db'[ProtocolKeysAsClaimed(ts, ip)[i]]
                        = serialize_ProtocolRecord(
                              ProtocolRecord(ts, ip, out'.snap.protocols[ip]))
            /\ \A port \in DOMAIN out'.snap.ports :
                  db'[PortKeyAsClaimed(ts, port)]
                     = serialize_PortRecord(PortRecord(ts, port, out'.snap.ports[port]))
            /\ \A k \in shared :
                  LET new  == out'.snap.flows[k]
                      old  == out.snap.flows[k]
                      by_time == get_flows_in_timerange(db', ts, ts + 1)
                      by_ip   == get_ip_flows_history(db', k.ip, ts, ts + 1)
                      by_port == [key \in KeysInRange(db', PORT_FLOWS_TAG,
                                                       Decimal(k.port), ts, ts + 1) |->
                                     deserialize_FlowRecord(db'[key]).record]
                      Of(records) == {i \in DOMAIN records :
                                         /\ records[i].flow_key.ip = k.ip
                                         /\ records[i].flow_key.port = k.port
                                         /\ records[i].flow_key.protocol = k.protocol
                                         /\ records[i].flow_key.direction = k.direction}
                  IN  /\ ReadsBack(by_time, k, new)
                      /\ ReadsBack(by_ip, k, new)
                      /\ ReadsBack(by_port, k, new)
                      /\ Cardinality(Of(by_time)) = 1
                      /\ Cardinality(Of(by_ip)) = 1
                      /\ Cardinality(Of(by_port)) = 1
                      /\ old # new => /\ ~ReadsBack(by_time, k, old)
                                      /\ ~ReadsBack(by_ip, k, old)
                                      /\ ~ReadsBack(by_port, k, old)
    ]_vars

\* the second of two successful calls of one second: the store holds, for that
\* second, a flow only the earlier snapshot had, and the flow both had is read
\* back with the two packets of the later snapshot
C39_Witness ==
    /\ out.op = "store_traffic_snapshot"
    /\ out.ret = "Ok"
    /\ \E k \in DOMAIN out.snap.flows :
          /\ out.snap.flows[k].inbound_packets = 2
          /\ ReadsBack(get_flows_in_timerange(db, out.ts, out.ts + 1), k,
                       out.snap.flows[k])
    /\ KeysOfSecond(db, out.ts) \ KeysAsClaimed(out.snap, out.ts) # {}

----------------------------------------------------------------------------
(* SpecCallers: API requests inside add_listen_ip, remove_listen_ip and    *)
(* get_config at the same time (listener_config.rs:82-121, 168-185).       *)
(*                                                                         *)
(* A call is a sequence of steps: it takes the lock of listen_ips, tests   *)
(* the set, changes it and, on return, drops the guard.  get_config        *)
(* iterates the set under the read guard; the iteration is two steps, the  *)
(* address the hasher puts first (if the set holds it) and then the others. *)
(* Two of the requests change the set and the third reads it.  Each        *)
(* caller record keeps, for the call it is in or has returned from: the    *)
(* number n of the call, the calls `met' that were in progress when it     *)
(* started, the set ips0 at that time and, for get_config, the values      *)
(* `sets' the set has had since.                                           *)

(* Calls the requests make in all *)
MaxCalls == 3

Mutators == {"c1", "c2"}

(* The address strings of the requests: two addresses and a malformed one *)
CallStrings == {<<10, 0, 0, 5>>, <<10, 0, 0, 1>>, <<10, 0, 5>>}

CallsMade == callers["c1"].n + callers["c2"].n + callers["c3"].n

(* Ipv4Addr::from(u32).to_string(): the four octets, most significant first *)
u32_to_ip_string(ip) ==
    <<ip \div 16777216, (ip \div 65536) % 256, (ip \div 256) % 256, ip % 256>>

InCall(c) == callers[c].pc \notin {"idle", "returned"}

Met(c) == {<<d, callers[d].n>> : d \in {e \in Callers \ {c} : InCall(e)}}

callFrame == <<kernelVars, db, now, nstores, previous_totals, last_snapshot_time, out,
               listen_ports, latest_dashboard_data, dashboard_lock, updater, readers,
               log, pc, prev_tick, collector>>

(* add_listen_ip / remove_listen_ip up to the lock: parse_ip, whose Err    *)
(* returns at once                                                         *)
StartMutation(c, op, ip_str) ==
    /\ c \in Mutators
    /\ ~InCall(c)
    /\ CallsMade < MaxCalls
    /\ LET p    == parse_ip(ip_str)
           call == [n |-> callers[c].n + 1, op |-> op, ip_str |-> ip_str,
                    met |-> Met(c), ips0 |-> listen_ips]
       IN  callers' = [callers EXCEPT ![c] =
               IF p.ok
               THEN call @@ [pc |-> "lock", ip |-> p.ip]
               ELSE call @@ [pc |-> "returned", ret |-> "Err"]]
    /\ UNCHANGED <<callFrame, listen_ips, listen_ips_lock>>

(* Mutation: the write lock is granted while another writer holds it *)
WriteLockOverWriter(c) ==
    /\ callers[c].pc = "lock"
    /\ callers[c].op \in {"add_listen_ip", "remove_listen_ip"}
    /\ listen_ips_lock.readers = {}
    /\ listen_ips_lock' = [listen_ips_lock EXCEPT !.writer = TRUE]
    /\ callers' = [callers EXCEPT ![c].pc = "test"]
    /\ UNCHANGED <<callFrame, listen_ips>>

(* self.listen_ips.write().await *)
WriteLock(c) ==
    /\ callers[c].pc = "lock"
    /\ callers[c].op \in {"add_listen_ip", "remove_listen_ip"}
    /\ write_granted(listen_ips_lock)
    /\ listen_ips_lock' = [listen_ips_lock EXCEPT !.writer = TRUE]
    /\ callers' = [callers EXCEPT ![c].pc = "test"]
    /\ UNCHANGED <<callFrame, listen_ips>>

(* ips.contains(&ip): the early return of success: false *)
Test(c) ==
    /\ callers[c].pc = "test"
    /\ LET found   == callers[c].ip \in listen_ips
           refused == IF callers[c].op = "add_listen_ip" THEN found ELSE ~found
       IN  callers' = [callers EXCEPT ![c] =
               IF refused
               THEN [pc |-> "unlock", ret |-> "Ok(success: false)"] @@ @
               ELSE [pc |-> "mutate"] @@ @]
    /\ UNCHANGED <<callFrame, listen_ips, listen_ips_lock>>

(* ips.insert(ip) / ips.remove(&ip); a get_config call in progress has the *)
(* new value of the set among the values of its time                       *)
Mutate(c) ==
    /\ callers[c].pc = "mutate"
    /\ listen_ips' = IF callers[c].op = "add_listen_ip"
                     THEN listen_ips \cup {callers[c].ip}
                     ELSE listen_ips \ {callers[c].ip}
    /\ callers' = [d \in Callers |->
           IF d = c THEN [pc |-> "unlock", ret |-> "Ok(success: true)"] @@ callers[c]
           ELSE IF InCall(d) /\ callers[d].op = "get_config"
                THEN [callers[d] EXCEPT !.sets = @ \cup {listen_ips'}]
                ELSE callers[d]]
    /\ UNCHANGED <<callFrame, listen_ips_lock>>

(* the write guard is dropped when the call returns *)
WriteUnlock(c) ==
    /\ callers[c].pc = "unlock"
    /\ callers[c].op \in {"add_listen_ip", "remove_listen_ip"}
    /\ listen_ips_lock' = [listen_ips_lock EXCEPT !.writer = FALSE]
    /\ callers' = [callers EXCEPT ![c].pc = "returned"]
    /\ UNCHANGED <<callFrame, listen_ips>>

(* get_config up to the lock *)
StartConfig(c) ==
    /\ c \notin Mutators
    /\ ~InCall(c)
    /\ CallsMade < MaxCalls
    /\ callers' = [callers EXCEPT ![c] =
           [pc |-> "lock", n |-> callers[c].n + 1, op |-> "get_config",
            met |-> Met(c), ips0 |-> listen_ips, sets |-> {listen_ips}]]
    /\ UNCHANGED <<callFrame, listen_ips, listen_ips_lock>>

(* self.listen_ips.read().await *)
ReadLockIps(c) ==
    /\ callers[c].pc = "lock"
    /\ callers[c].op = "get_config"
    /\ read_granted(listen_ips_lock)
    /\ listen_ips_lock' = [listen_ips_lock EXCEPT !.readers = @ \cup {c}]
    /\ callers' = [callers EXCEPT ![c].pc = "iter"]
    /\ UNCHANGED <<callFrame, listen_ips>>

(* ips.iter().map(u32_to_ip_string).collect(): the element the iterator    *)
(* yields first                                                            *)
IterFirst(c, first) ==
    /\ callers[c].pc = "iter"
    /\ callers' = [callers EXCEPT ![c] =
           [pc |-> "iter_rest", first |-> first,
            copy |-> {u32_to_ip_string(ip) : ip \in listen_ips \cap {first}}] @@ @]
    /\ UNCHANGED <<callFrame, listen_ips, listen_ips_lock>>

(* the other elements, and the ports *)
IterRest(c) ==
    /\ callers[c].pc = "iter_rest"
    /\ callers' = [callers EXCEPT ![c] =
           [pc |-> "unlock",
            ret |-> [listen_ips |-> callers[c].copy \cup
                        {u32_to_ip_string(ip) : ip \in listen_ips \ {callers[c].first}},
                     listen_ports |-> listen_ports]] @@ @]
    /\ UNCHANGED <<callFrame, listen_ips, listen_ips_lock>>

(* the read guard is dropped when the call returns *)
ReadUnlockIps(c) ==
    /\ callers[c].pc = "unlock"
    /\ callers[c].op = "get_config"
    /\ listen_ips_lock' = [listen_ips_lock EXCEPT !.readers = @ \ {c}]
    /\ callers' = [callers EXCEPT ![c].pc = "returned"]
    /\ UNCHANGED <<callFrame, listen_ips>>

NextCallers ==
    \/ \E c \in Callers, ip_str \in CallStrings :
          \/ StartMutation(c, "add_listen_ip", ip_str)
          \/ StartMutation(c, "remove_listen_ip", ip_str)
    \/ \E c \in Callers :
          \/ WriteLock(c)
          \/ Test(c)
          \/ Mutate(c)
          \/ WriteUnlock(c)
          \/ StartConfig(c)
          \/ ReadLockIps(c)
          \/ \E first \in IPs : IterFirst(c, first)
          \/ IterRest(c)
          \/ ReadUnlockIps(c)

SpecCallers == InitListen /\ [][NextCallers]_vars

----------------------------------------------------------------------------
(* C40 *)

(* The call c has returned from is a call of op that did not fail *)
ReturnedFrom(c, op) ==
    /\ callers[c].pc = "returned"
    /\ callers[c].op = op
    /\ callers[c].ret # "Err"

(* c and d have returned from calls of op for one address, and c's call    *)
(* started while d's was in progress                                       *)
ConcurrentPair(c, d, op) ==
    /\ c # d
    /\ ReturnedFrom(c, op)
    /\ ReturnedFrom(d, op)
    /\ callers[c].ip = callers[d].ip
    /\ <<d, callers[d].n>> \in callers[c].met

Successes(c, d) ==
    {e \in {c, d} : callers[e].ret = "Ok(success: true)"}

\* C40: the mutations of listen_ips are serialized by its write lock, held from
\* before the membership test until after the insert or remove: of two concurrent
\* add_listen_ip calls for one address that was absent when they were both in
\* progress exactly one has returned success = true and the other success =
\* false, and the set contains the address; of two concurrent remove_listen_ip
\* calls for an address that was present exactly one has returned success =
\* true; and the listen_ips a get_config call returns is a value the set had
\* during the call, the set before or after each mutation.
C40_MutationsSerialized ==
    /\ \A c, d \in Mutators :
          /\ ConcurrentPair(c, d, "add_listen_ip") /\ callers[c].ip \notin callers[c].ips0
                => /\ Cardinality(Successes(c, d)) = 1
                   /\ \E e \in {c, d} : callers[e].ret = "Ok(success: false)"
                   /\ callers[c].ip \in listen_ips
          /\ ConcurrentPair(c, d, "remove_listen_ip") /\ callers[c].ip \in callers[c].ips0
                => Cardinality(Successes(c, d)) = 1
    /\ \A c \in Callers :
          callers[c].pc = "returned" /\ callers[c].op = "get_config"
             => \E ips \in callers[c].sets :
                   callers[c].ret.listen_ips = {u32_to_ip_string(ip) : ip \in ips}

\* two add_listen_ip("10.0.0.1") calls that were in progress together have
\* returned, the one that started second with success = false, and a get_config
\* call that started while both were in progress has returned the set with the
\* new address
C40_Witness ==
    /\ ConcurrentPair("c1", "c2", "add_listen_ip")
    /\ callers["c1"].ip = IpB
    /\ IpB \notin callers["c1"].ips0
    /\ callers["c1"].ret = "Ok(success: false)"
    /\ callers["c3"].pc = "returned"
    /\ callers["c3"].op = "get_config"
    /\ Cardinality(callers["c3"].met) = 2
    /\ callers["c3"].ret.listen_ips = {<<10, 0, 0, 5>>, <<10, 0, 0, 1>>}

----------------------------------------------------------------------------
(* SpecCollect: collect_and_store_data (main.rs:37-78) while packets are   *)
(* classified.  The call enumerates FLOW_STATS, then IP_PROTOCOL_STATS,    *)
(* then PORT_STATS, entry by entry, each into a map of its own, and stores *)
(* the three; nothing keeps the classifier from running between two reads. *)
(* The packets are TCP segments 10.0.0.5:443 -> 10.0.0.1:51000, arriving   *)
(* on one CPU; a read can fall between any two map accesses of a run.      *)
(* Both addresses are watched, so that a packet has an entry for each side *)
(* in every map.  collector.npkts0 is the number of packets handed to the  *)
(* classifier before the call began and collector.quiet tells whether no   *)
(* run was in progress then.                                               *)

MaxCollectPackets == MaxPackets - 1

MaxCollections == MaxStores - 1

(* let mut flows = HashMap::new(); ... *)
BeginCollect ==
    /\ collector.pc = "idle"
    /\ nstores < MaxCollections
    /\ collector' = [npkts0 |-> npkts, quiet |-> Quiescent] @@ Collecting
    /\ UNCHANGED collectorFrame

(* storage.store_traffic_snapshot(&flows, &protocols, &ports)? *)
StoreCollected(fail) ==
    /\ Collected
    /\ fail = "serialize" => DOMAIN collector.flows # {}
    /\ LET r == store_traffic_snapshot(db, collector.flows, collector.protocols,
                                       collector.ports, now, fail)
       IN  /\ db' = r.db
           /\ out' = [op |-> "collect_and_store_data", ts |-> now, ret |-> r.ret,
                      snap |-> [flows |-> collector.flows,
                                protocols |-> collector.protocols,
                                ports |-> collector.ports]]
    /\ nstores' = nstores + 1
    /\ collector' = IdleCollector
    /\ UNCHANGED <<kernelVars, listen_ips, now, previous_totals, last_snapshot_time,
                   taskVars>>

NextCollect ==
    \/ \E l \in {1} :
          \/ \E pkt \in OverlapPackets : npkts < MaxCollectPackets /\ LaneStart(l, pkt)
          \/ LaneStep(l)
    \/ BeginCollect
    \/ ReadFlowStats
    \/ EndFlowStats
    \/ ReadProtocolStats
    \/ EndProtocolStats
    \/ ReadPortStats
    \/ EndPortStats
    \/ \E fail \in {"none"} : StoreCollected(fail)

InitCollect ==
    /\ Init
    /\ TARGET_IP = {IpA, IpB}
    /\ flow_other = 0
    /\ proto_other = 0
    /\ port_other = 0

SpecCollect == InitCollect /\ [][NextCollect]_vars

----------------------------------------------------------------------------
(* C33 *)

\* C33: collect_and_store_data enumerates the flow, the protocol and the port
\* map one after the other, entry by entry, with nothing excluding the
\* classifier in between: when no packet was being classified while the maps
\* were enumerated (no run in progress when the call began, none started
\* since), the three collected maps are the three maps' contents at that
\* instant, and that is what is handed to the store.  (With a packet classified
\* in between the collected maps can disagree: C33_Witness.)
C33_QuietCollectionIsExact ==
    /\ [](Collected /\ collector.quiet /\ npkts = collector.npkts0
            => /\ collector.flows = FLOW_STATS
               /\ collector.protocols = IP_PROTOCOL_STATS
               /\ collector.ports = PORT_STATS)
    /\ [][\A fail \in Failures : StoreCollected(fail) =>
             /\ out'.snap.flows = collector.flows
             /\ out'.snap.protocols = collector.protocols
             /\ out'.snap.ports = collector.ports]_vars

\* a packet was classified, from its first map access to its last, after the
\* flow map was enumerated and before the protocol and port maps were: its bytes
\* are in the collected protocol and port entries and in no collected flow
\* entry, so that the flow byte total of the snapshot is below its port byte
\* total although the maps themselves agree
C33_Witness ==
    /\ Collected
    /\ collector.quiet
    /\ npkts = collector.npkts0 + 1
    /\ last.n = npkts
    /\ last.ret = XDP_PASS
    /\ MapsConsistent
    /\ collector.ports = PORT_STATS
    /\ collector.protocols = IP_PROTOCOL_STATS
    /\ collector.flows = last.before.flow
    /\ collector.flows # FLOW_STATS
    /\ FlowByteSum(collector.flows, DOMAIN collector.flows)
          < PortByteSum(collector.ports, DOMAIN collector.ports)
====
